---- MODULE Spec2Model ----
(***************************************************************************)
(* Model of the kreator backend: the level/category usability rule, the   *)
(* recipe validator, and the JSON store the /api endpoints read and write. *)
(* The store starts with no data file. Spec handles requests one at a     *)
(* time; SpecOverlap lets node requests run between the awaits of a recipe *)
(* create; SpecRule evaluates the rule on its own.                          *)
(***************************************************************************)
EXTENDS Integers, Sequences, FiniteSets, TLC

(***************************************************************************)
(* Bounds of the model.                                                    *)
(***************************************************************************)
\* largest node id the model lets nextId hand out
MaxId == 1
\* most nodes kept in the store
MaxNodes == 2
\* most recipes kept in the store
MaxRecipes == 1
\* longest knowledgePoints array a request carries
MaxKp == 2

\* recipes stored, and the highest recipe id handed out, where the runs make
\* room for two recipes
IdsMaxRecipes == 2

IdsMaxRecipeId == 2

\* nodes created with the same id where the runs count them
MaxGenerations == 2

\* library entries stored, and the highest entry id handed out
MaxEntries == 1

MaxEntryId == 3

(***************************************************************************)
(* Program constants.                                                      *)
(***************************************************************************)
LEVEL_ORDER == <<"album", "single", "segment", "phrase", "timbre">>

LEVELS == {"album", "single", "segment", "phrase", "timbre"}

CATEGORY == {"form", "material"}

\* the JS value undefined, as read from an array index out of range
Undefined == "undefined"

(***************************************************************************)
(* Sequence helpers standing for the JS array built-ins the code uses.     *)
(***************************************************************************)
Range(s) == {s[i] : i \in 1..Len(s)}

\* LEVEL_ORDER.indexOf(level): 0-based, -1 when absent
IndexOf(level) ==
  IF \E i \in 1..Len(LEVEL_ORDER) : LEVEL_ORDER[i] = level
  THEN (CHOOSE i \in 1..Len(LEVEL_ORDER) : LEVEL_ORDER[i] = level) - 1
  ELSE -1

\* LEVEL_ORDER[i] with a 0-based index: undefined out of range
LevelAt(i) ==
  IF i >= 0 /\ i < Len(LEVEL_ORDER) THEN LEVEL_ORDER[i + 1] ELSE Undefined

(***************************************************************************)
(* The usability rule.                                                     *)
(***************************************************************************)
\* mutant: the material branch looks one step coarser instead of finer
getUsableLevelsForNode_up(node) ==
  LET levelIndex == IndexOf(node.level)
      own == <<node.level>>
      lowerLevel == LevelAt(levelIndex - 1)
      higherLevel == LevelAt(levelIndex - 1)
      withLower == IF node.category = "material" /\ lowerLevel # Undefined
                   THEN own \o <<lowerLevel>> ELSE own
  IN IF levelIndex = -1 THEN <<>>
     ELSE IF node.category = "form" /\ higherLevel # Undefined
          THEN withLower \o <<higherLevel>> ELSE withLower

\* mutant: the usable set also takes the level two steps finer
getUsableLevelsForNode_twoHop(node) ==
  LET levelIndex == IndexOf(node.level)
      own == <<node.level>>
      lowerLevel == LevelAt(levelIndex + 1)
      lower2 == LevelAt(levelIndex + 2)
      higherLevel == LevelAt(levelIndex - 1)
      withLower == IF node.category = "material" /\ lowerLevel # Undefined
                   THEN own \o <<lowerLevel>> ELSE own
      withLower2 == IF lower2 # Undefined THEN withLower \o <<lower2>> ELSE withLower
  IN IF levelIndex = -1 THEN <<>>
     ELSE IF node.category = "form" /\ higherLevel # Undefined
          THEN withLower2 \o <<higherLevel>> ELSE withLower2

\* the levels a node may be used at: its own, one finer for material,
\* one coarser for form
getUsableLevelsForNode(node) ==
  LET levelIndex == IndexOf(node.level)
      own == <<node.level>>
      lowerLevel == LevelAt(levelIndex + 1)
      higherLevel == LevelAt(levelIndex - 1)
      withLower == IF node.category = "material" /\ lowerLevel # Undefined
                   THEN own \o <<lowerLevel>> ELSE own
  IN IF levelIndex = -1 THEN <<>>
     ELSE IF node.category = "form" /\ higherLevel # Undefined
          THEN withLower \o <<higherLevel>> ELSE withLower

\* mutant: the form branch flips one step finer instead of coarser
getRelativeCategory_formDown(node, targetLevel) ==
  LET levelIndex == IndexOf(node.level)
  IN IF targetLevel = node.level THEN node.category
     ELSE IF levelIndex = -1 THEN ""
     ELSE IF node.category = "material"
          THEN (IF targetLevel = LevelAt(levelIndex + 1) THEN "form" ELSE "")
     ELSE IF node.category = "form"
          THEN (IF targetLevel = LevelAt(levelIndex + 1) THEN "material" ELSE "")
     ELSE ""

\* mutant: the material branch keeps the category instead of flipping it
getRelativeCategory_noFlip(node, targetLevel) ==
  LET levelIndex == IndexOf(node.level)
  IN IF targetLevel = node.level THEN node.category
     ELSE IF levelIndex = -1 THEN ""
     ELSE IF node.category = "material"
          THEN (IF targetLevel = LevelAt(levelIndex + 1) THEN "material" ELSE "")
     ELSE IF node.category = "form"
          THEN (IF targetLevel = LevelAt(levelIndex - 1) THEN "material" ELSE "")
     ELSE ""

\* mutant: the identity case is dropped
getRelativeCategory_noOwn(node, targetLevel) ==
  LET levelIndex == IndexOf(node.level)
  IN IF levelIndex = -1 THEN ""
     ELSE IF node.category = "material"
          THEN (IF targetLevel = LevelAt(levelIndex + 1) THEN "form" ELSE "")
     ELSE IF node.category = "form"
          THEN (IF targetLevel = LevelAt(levelIndex - 1) THEN "material" ELSE "")
     ELSE ""

\* mutant: a material node is also accepted one step coarser
getRelativeCategory_bothWays(node, targetLevel) ==
  LET levelIndex == IndexOf(node.level)
  IN IF targetLevel = node.level THEN node.category
     ELSE IF levelIndex = -1 THEN ""
     ELSE IF node.category = "material"
          THEN (IF targetLevel = LevelAt(levelIndex + 1)
                   \/ targetLevel = LevelAt(levelIndex - 1) THEN "form" ELSE "")
     ELSE IF node.category = "form"
          THEN (IF targetLevel = LevelAt(levelIndex - 1) THEN "material" ELSE "")
     ELSE ""

\* the category a node has when seen from targetLevel; "" when unusable
getRelativeCategory(node, targetLevel) ==
  LET levelIndex == IndexOf(node.level)
  IN IF targetLevel = node.level THEN node.category
     ELSE IF levelIndex = -1 THEN ""
     ELSE IF node.category = "material"
          THEN (IF targetLevel = LevelAt(levelIndex + 1) THEN "form" ELSE "")
     ELSE IF node.category = "form"
          THEN (IF targetLevel = LevelAt(levelIndex - 1) THEN "material" ELSE "")
     ELSE ""

\* nodes.map(node => node.id) as a set
NodeIdSet(nodes) == {nodes[i].id : i \in 1..Len(nodes)}

\* new Map(nodes.map(node => [node.id, node])).get(id): a later entry with
\* the same key replaces an earlier one
NodeMapGet(nodes, id) ==
  nodes[CHOOSE i \in 1..Len(nodes) :
          /\ nodes[i].id = id
          /\ \A j \in 1..Len(nodes) : nodes[j].id = id => j <= i]

areValidKnowledgeIds(ids, nodes) ==
  \A k \in 1..Len(ids) : ids[k] \in NodeIdSet(nodes)

\* the ids, in submitted order, whose node exists and is not usable at
\* recipeLevel; an id with no node is not reported here
findUnavailableKnowledgeIds(ids, nodes, recipeLevel) ==
  LET unavailable(id) ==
        IF id \notin NodeIdSet(nodes) THEN FALSE
        ELSE recipeLevel \notin Range(getUsableLevelsForNode(NodeMapGet(nodes, id)))
  IN SelectSeq(ids, unavailable)

(***************************************************************************)
(* Request values and their normalisation.                                 *)
(***************************************************************************)
\* a JSON field that is absent or null
Null == "<null>"

\* the result null of normalizeNumericId
NullId == -1

\* String.prototype.trim on the strings the model submits
Trim(text) ==
  CASE text = " c " -> "c"
    [] text = " Album " -> "Album"
    [] OTHER -> text

\* String.prototype.toLowerCase on the strings the model submits
LowerCase(text) == IF text = "Album" THEN "album" ELSE text

toSafeString(value) == IF value = Null THEN "" ELSE Trim(value)

toSafeLower(value) == LowerCase(toSafeString(value))

normalizeLevel(value) ==
  LET level == toSafeLower(value)
  IN IF level \in LEVELS THEN level ELSE ""

normalizeCategory(value) ==
  LET category == toSafeLower(value)
  IN IF category \in CATEGORY THEN category ELSE ""

\* An id token of a request is a JSON number or a JSON string:
\*   [kind |-> "number", val |-> n]   the number n (n < 0: not accepted)
\*   [kind |-> "string", val |-> n]   the decimal digits of n >= 0,
\*                                    or, for n < 0, a string that is not digits
NumberToken(n) == [kind |-> "number", val |-> n]

StringToken(n) == [kind |-> "string", val |-> n]

normalizeNumericId(value) ==
  IF value.kind = "number" /\ value.val >= 0 THEN value.val
  ELSE IF value.kind = "string" /\ value.val >= 0 THEN value.val
  ELSE NullId

parseParamId(value) == normalizeNumericId(value)

\* the body field knowledgePoints: an array of tokens, a value that is not an
\* array, or null/absent
ArrayValue(items) == [kind |-> "array", items |-> items]

NotAnArray == [kind |-> "other", items |-> <<>>]

NullValue == [kind |-> "null", items |-> <<>>]

RECURSIVE MapNormalizeNumericId(_)
MapNormalizeNumericId(items) ==
  IF items = <<>> THEN <<>>
  ELSE <<normalizeNumericId(Head(items))>> \o MapNormalizeNumericId(Tail(items))

RECURSIVE MapNumberToken(_)
MapNumberToken(ids) ==
  IF ids = <<>> THEN <<>>
  ELSE <<NumberToken(Head(ids))>> \o MapNumberToken(Tail(ids))

\* mutant: a repeated id is kept once
normalizeKnowledgePoints_unique(value) ==
  IF value.kind # "array" THEN <<>>
  ELSE LET ids == MapNormalizeNumericId(value.items)
           first(k) == ids[k] # NullId /\ \A j \in 1..(k - 1) : ids[j] # ids[k]
           keep == {k \in 1..Len(ids) : first(k)}
       IN IF keep = {} THEN <<>>
          ELSE IF Cardinality(keep) = Len(ids) THEN ids
          ELSE <<ids[CHOOSE k \in keep : \A j \in keep : k <= j]>>

normalizeKnowledgePoints(value) ==
  IF value.kind # "array" THEN <<>>
  ELSE LET notNull(item) == item # NullId
       IN SelectSeq(MapNormalizeNumericId(value.items), notNull)

normalizeNode(content, level, category) ==
  [content |-> toSafeString(content),
   level |-> normalizeLevel(level),
   category |-> normalizeCategory(category)]

normalizeRecipe(knowledgePoints, procedure, level, description) ==
  [knowledgePoints |-> normalizeKnowledgePoints(knowledgePoints),
   procedure |-> toSafeString(procedure),
   level |-> normalizeLevel(level),
   description |-> toSafeString(description)]

RECURSIVE MaxOf(_)
MaxOf(S) ==
  LET x == CHOOSE y \in S : TRUE
  IN IF S = {x} THEN x
     ELSE LET m == MaxOf(S \ {x}) IN IF x > m THEN x ELSE m

\* mutant: the next id is the number of records
nextId_count(items) == Len(items)

nextId(items) ==
  IF Len(items) = 0 THEN 0
  ELSE MaxOf({items[i].id : i \in 1..Len(items)}) + 1

(***************************************************************************)
(* The JSON store: the data file, and the view readStore gives of it.      *)
(***************************************************************************)
VARIABLES
  dataFile,     \* content of DATA_FILE: [nodes |-> list, recipes |-> list]
  normalized,   \* knowledgePoints and level of the recipe handler's `normalized`,
                \* and the knowledgePoints value of the request body; for
                \* the relative query, the id and level asked about
  resp,         \* the response to the last request
  qNode, qLevel, qPc, qRelative, qUsable, qUnavailable,
                \* a stand-alone evaluation of the usability rule
  inflight      \* a POST /api/recipes handler that other requests overlap:
                \* its position, its `normalized` and its response status

storeVars == <<dataFile, normalized, resp>>

VARIABLES
  vIds, vNodes, vLevel,
                \* the arguments ids, nodes, recipeLevel of a stand-alone
                \* evaluation of the recipe checks
  vOutcomes     \* what the evaluations made of them have answered, in order

valVars == <<vIds, vNodes, vLevel, vOutcomes>>

VARIABLES
  parsed,       \* what JSON.parse gives of a data file of any content
  view,         \* what readStore returned for it
  readPc        \* "file" before that readStore, "returned" after it

readVars == <<parsed, view, readPc>>

VARIABLES
  writers,      \* two handlers of write requests whose steps interleave:
                \* position, the list read, the store read again, the new
                \* record, the response status
  overlapped    \* whether a handler wrote while the other one was between
                \* its read and its write

raceVars == <<writers, overlapped>>

VARIABLES
  nodeGen,      \* history: how many nodes have been created with each id
  recipeSeen,   \* history: for each recipe id, the nodeGen of the ids the
                \* recipe named when it was last accepted (0: not named)
  staleRefs     \* history: the ids of the recipes of the data file that named
                \* the id of the node created last, before it was created

bindVars == <<nodeGen, recipeSeen, staleRefs>>

VARIABLES
  libBackend,   \* which module ../../Library/db is: "fallback" (the JSON
                \* store) or "sqlite"
  libStore,     \* the library store: entries, refined records, and the
                \* AUTOINCREMENT sequence of the sqlite table
  refinedJson,  \* content of Library/data/refined.json
  libResp       \* the response to the last library request

libVars == <<libBackend, libStore, refinedJson, libResp>>

VARIABLES
  platform,     \* process.platform of the dev supervisor: "win32" or "posix"
  shuttingDown, \* its flag shuttingDown
  childStatus,  \* per child: "failing" (spawn failed, the error event is
                \* still to come), "failed", "running", "exited"
  childKilled,  \* per child: child.killed
  stopAsked,    \* per child: how often it was told to stop (child.kill or
                \* taskkill)
  timerCode,    \* the exitCode of the pending setTimeout, NoCode for none
  processExit,  \* the code the supervisor exited with, NoCode while it runs
  devEvent      \* the event whose handler ran last

devVars == <<platform, shuttingDown, childStatus, childKilled, stopAsked,
             timerCode, processExit, devEvent>>

\* the variables outside the store that the create and update handlers do
\* not touch
sideVars == <<valVars, readVars, raceVars>>

\* the variables of the parts that a specification does not run
extraVars == <<sideVars, bindVars, libVars, devVars>>

notVal == <<readVars, raceVars, bindVars, libVars, devVars>>

notRead == <<valVars, raceVars, bindVars, libVars, devVars>>

notRace == <<valVars, readVars, bindVars, libVars, devVars>>

notLib == <<valVars, readVars, raceVars, bindVars, devVars>>

notDev == <<valVars, readVars, raceVars, bindVars, libVars>>

ValIdle ==
  /\ vIds = <<>>
  /\ vNodes = <<>>
  /\ vLevel = ""
  /\ vOutcomes = <<>>

ReadIdle ==
  /\ parsed = [nodes |-> NotAnArray, recipes |-> NotAnArray, music |-> NotAnArray]
  /\ view = [nodes |-> <<>>, recipes |-> <<>>]
  /\ readPc = "off"

Writers == 1..2

NoWriter ==
  [op |-> "none", pc |-> "idle", list |-> <<>>,
   store |-> [nodes |-> <<>>, recipes |-> <<>>], id |-> 0 - 1, status |-> 0,
   level |-> "", knowledgePoints |-> <<>>]

RaceIdle ==
  /\ writers = [w \in Writers |-> NoWriter]
  /\ overlapped = FALSE

BindIdle ==
  /\ nodeGen = [id \in 0..MaxId |-> 0]
  /\ recipeSeen = [r \in 0..IdsMaxRecipeId |-> [id \in 0..MaxId |-> 0]]
  /\ staleRefs = {}

NoLibResponse == [op |-> "none", status |-> 0, id |-> 0, rows |-> <<>>]

EmptyLibrary == [entries |-> <<>>, refinedEntries |-> <<>>, seq |-> 0]

LibIdle ==
  /\ libBackend = "none"
  /\ libStore = EmptyLibrary
  /\ refinedJson = <<>>
  /\ libResp = NoLibResponse

\* the children array: backend, frontend
Children == 1..2

NoCode == 0 - 1

NoEvent == [kind |-> "none", child |-> 0, code |-> NoCode]

DevIdle ==
  /\ platform = "none"
  /\ shuttingDown = FALSE
  /\ childStatus = [c \in Children |-> "none"]
  /\ childKilled = [c \in Children |-> FALSE]
  /\ stopAsked = [c \in Children |-> 0]
  /\ timerCode = NoCode
  /\ processExit = NoCode
  /\ devEvent = NoEvent

ExtraIdle == ValIdle /\ ReadIdle /\ RaceIdle /\ BindIdle /\ LibIdle /\ DevIdle

vars == <<dataFile, normalized, resp,
          qNode, qLevel, qPc, qRelative, qUsable, qUnavailable, inflight,
          extraVars>>

ruleVars == <<qNode, qLevel, qPc, qRelative, qUsable, qUnavailable>>

\* the smallest id from 0 up that is not in used
FirstFreeId(used) ==
  CHOOSE n \in 0..Cardinality(used) :
    /\ n \notin used
    /\ \A m \in 0..Cardinality(used) : m \notin used => n <= m

\* the id loops of readStore: keep an id that is numeric and not yet used,
\* otherwise take the first free one
RECURSIVE AssignIds(_, _)
AssignIds(items, used) ==
  IF items = <<>> THEN <<>>
  ELSE LET existingNumericId == normalizeNumericId(NumberToken(Head(items).id))
           id == IF existingNumericId = NullId \/ existingNumericId \in used
                 THEN FirstFreeId(used) ELSE existingNumericId
       IN <<[Head(items) EXCEPT !.id = id]>> \o AssignIds(Tail(items), used \cup {id})

\* one element of preparedNodes: dropped when content or level is empty, the
\* category falling back to form
PrepareNode(node, norm) ==
  IF norm.content = "" \/ norm.level = "" THEN <<>>
  ELSE <<[id |-> node.id, content |-> norm.content, level |-> norm.level,
          category |-> IF norm.category # "" THEN norm.category ELSE "form"]>>

\* preparedNodes
RECURSIVE PrepareNodes(_)
PrepareNodes(rawNodes) ==
  IF rawNodes = <<>> THEN <<>>
  ELSE PrepareNode(Head(rawNodes),
                   normalizeNode(Head(rawNodes).content, Head(rawNodes).level,
                                 Head(rawNodes).category))
       \o PrepareNodes(Tail(rawNodes))

\* mutant: the ids of a stored recipe are not looked up in the nodes
PrepareRecipe_unchecked(recipe, norm, nodes) ==
  IF \/ norm.level = ""
     \/ norm.description = ""
     \/ norm.procedure = ""
     \/ Len(norm.knowledgePoints) = 0
  THEN <<>>
  ELSE <<[id |-> recipe.id, knowledgePoints |-> norm.knowledgePoints,
          procedure |-> norm.procedure, level |-> norm.level,
          description |-> norm.description]>>

\* one element of preparedRecipes: a stored recipe is dropped from the view
\* when a field is empty or when one of its ids is not the id of a node of
\* the view
PrepareRecipe(recipe, norm, nodes) ==
  IF \/ norm.level = ""
     \/ norm.description = ""
     \/ norm.procedure = ""
     \/ Len(norm.knowledgePoints) = 0
  THEN <<>>
  ELSE IF ~areValidKnowledgeIds(norm.knowledgePoints, nodes) THEN <<>>
  ELSE <<[id |-> recipe.id, knowledgePoints |-> norm.knowledgePoints,
          procedure |-> norm.procedure, level |-> norm.level,
          description |-> norm.description]>>

\* preparedRecipes
RECURSIVE PrepareRecipes(_, _)
PrepareRecipes(rawRecipes, nodes) ==
  IF rawRecipes = <<>> THEN <<>>
  ELSE PrepareRecipe(Head(rawRecipes),
                     normalizeRecipe(
                       ArrayValue(MapNumberToken(Head(rawRecipes).knowledgePoints)),
                       Head(rawRecipes).procedure, Head(rawRecipes).level,
                       Head(rawRecipes).description),
                     nodes)
       \o PrepareRecipes(Tail(rawRecipes), nodes)

\* the recipes of the view, given its nodes
ReadRecipes(file, nodes) ==
  [nodes |-> nodes, recipes |-> AssignIds(PrepareRecipes(file.recipes, nodes), {})]

\* the store every endpoint works from
readStore(file) == ReadRecipes(file, AssignIds(PrepareNodes(file.nodes), {}))

readNodeList(file) == readStore(file).nodes

readRecipeList(file) == readStore(file).recipes

\* mutant: the nodes are written with their ids renumbered by position
writeNodeList_renumbered(file, nodes) ==
  [readStore(file) EXCEPT
     !.nodes = [k \in 1..Len(nodes) |-> [nodes[k] EXCEPT !.id = k - 1]]]

\* mutant: the node list is put into the file as it is, the recipes of the
\* file kept whether readStore returns them or not
writeNodeList_recipesKept(file, nodes) == [file EXCEPT !.nodes = nodes]

\* the file after writeNodeList(nodes): the store is read again and written
\* back with the node list replaced
writeNodeList(file, nodes) == [readStore(file) EXCEPT !.nodes = nodes]

\* mutant: only the recipes are written
writeRecipeList_nodesLost(file, recipes) == [nodes |-> <<>>, recipes |-> recipes]

\* the file after writeRecipeList(recipes)
writeRecipeList(file, recipes) == [readStore(file) EXCEPT !.recipes = recipes]

\* list.findIndex(item => item.id === id): 1-based here, 0 when absent
FindIndex(list, id) ==
  IF \E i \in 1..Len(list) : list[i].id = id
  THEN CHOOSE i \in 1..Len(list) :
         /\ list[i].id = id
         /\ \A j \in 1..Len(list) : list[j].id = id => i <= j
  ELSE 0

\* list.filter(entry => entry.id !== targetId)
WithoutId(list, targetId) ==
  LET keep(entry) == entry.id # targetId IN SelectSeq(list, keep)

(***************************************************************************)
(* Requests the model submits.                                             *)
(***************************************************************************)
SeqsUpTo(S, n) == UNION {[1..k -> S] : k \in 0..n}

ContentInputs == {"", "c", " c "}

ProcedureInputs == {"", "p"}

DescriptionInputs == {"", "d"}

\* a PATCH leaves a text field out or sends it empty
TextPatches == {Null, ""}

LevelInputs == LEVELS \cup {" Album ", "chord"}

CategoryInputs == CATEGORY \cup {"shape"}

\* the ids a request names: every id the model hands out, and one number that
\* is no id
IdTokens == {NumberToken(n) : n \in (0 - 1)..MaxId}

\* the :id of a URL: the digits of an id, or a text that is not digits
ParamInputs == {StringToken(n) : n \in (0 - 1)..MaxId}

KpInputs == {ArrayValue(items) : items \in SeqsUpTo(IdTokens, MaxKp)} \cup {NotAnArray}

(***************************************************************************)
(* Responses.                                                              *)
(***************************************************************************)
NoRecipe ==
  [id |-> NullId, knowledgePoints |-> <<>>, procedure |-> "", level |-> "",
   description |-> ""]

NoNormalized == [knowledgePoints |-> <<>>, level |-> "", submitted |-> NullValue]

\* what the state keeps of the handler's local `normalized`, and the
\* knowledgePoints value of the request body it was made from
Checked(value, norm) ==
  [knowledgePoints |-> norm.knowledgePoints, level |-> norm.level,
   submitted |-> value]

\* what the state keeps of the locals `id` and `targetLevel` of
\* GET /api/nodes/:id/relative
Queried(id, targetLevel) ==
  [knowledgePoints |-> <<id>>, level |-> targetLevel, submitted |-> NullValue]

\* op: the endpoint; status: the HTTP status; error: which message, "" on
\* success; level, ids: the level and ids the message names; record: the
\* recipe in the body of a success
Response(op, status, error, level, ids, record) ==
  [op |-> op, status |-> status, error |-> error, level |-> level,
   ids |-> ids, record |-> record]

Rejected(op, status, error) == Response(op, status, error, "", <<>>, NoRecipe)

\* mutant: usability is checked before existence
Validate_usableFirst(op, norm, nodes) ==
  LET unavailableIds ==
        findUnavailableKnowledgeIds(norm.knowledgePoints, nodes, norm.level)
  IN IF \/ Len(norm.knowledgePoints) = 0
        \/ norm.procedure = ""
        \/ norm.level = ""
        \/ norm.description = ""
     THEN Rejected(op, 400, "required")
     ELSE IF Len(unavailableIds) > 0
     THEN Response(op, 400, "unusable", norm.level, unavailableIds, NoRecipe)
     ELSE IF ~areValidKnowledgeIds(norm.knowledgePoints, nodes)
     THEN Rejected(op, 400, "missing")
     ELSE Rejected(op, 200, "")

\* mutant: the existence check is left out
Validate_noExistence(op, norm, nodes) ==
  LET unavailableIds ==
        findUnavailableKnowledgeIds(norm.knowledgePoints, nodes, norm.level)
  IN IF \/ Len(norm.knowledgePoints) = 0
        \/ norm.procedure = ""
        \/ norm.level = ""
        \/ norm.description = ""
     THEN Rejected(op, 400, "required")
     ELSE IF Len(unavailableIds) > 0
     THEN Response(op, 400, "unusable", norm.level, unavailableIds, NoRecipe)
     ELSE Rejected(op, 200, "")

\* mutant: the unusable message names every submitted id
Validate_allIds(op, norm, nodes) ==
  LET unavailableIds ==
        findUnavailableKnowledgeIds(norm.knowledgePoints, nodes, norm.level)
  IN IF \/ Len(norm.knowledgePoints) = 0
        \/ norm.procedure = ""
        \/ norm.level = ""
        \/ norm.description = ""
     THEN Rejected(op, 400, "required")
     ELSE IF ~areValidKnowledgeIds(norm.knowledgePoints, nodes)
     THEN Rejected(op, 400, "missing")
     ELSE IF Len(unavailableIds) > 0
     THEN Response(op, 400, "unusable", norm.level, norm.knowledgePoints, NoRecipe)
     ELSE Rejected(op, 200, "")

\* mutant: an empty knowledgePoints list is let through
Validate_emptyAllowed(op, norm, nodes) ==
  LET unavailableIds ==
        findUnavailableKnowledgeIds(norm.knowledgePoints, nodes, norm.level)
  IN IF \/ norm.procedure = ""
        \/ norm.level = ""
        \/ norm.description = ""
     THEN Rejected(op, 400, "required")
     ELSE IF ~areValidKnowledgeIds(norm.knowledgePoints, nodes)
     THEN Rejected(op, 400, "missing")
     ELSE IF Len(unavailableIds) > 0
     THEN Response(op, 400, "unusable", norm.level, unavailableIds, NoRecipe)
     ELSE Rejected(op, 200, "")

\* mutant: the update does not check usability again
Validate_updateUnchecked(op, norm, nodes) ==
  LET unavailableIds ==
        findUnavailableKnowledgeIds(norm.knowledgePoints, nodes, norm.level)
  IN IF \/ Len(norm.knowledgePoints) = 0
        \/ norm.procedure = ""
        \/ norm.level = ""
        \/ norm.description = ""
     THEN Rejected(op, 400, "required")
     ELSE IF ~areValidKnowledgeIds(norm.knowledgePoints, nodes)
     THEN Rejected(op, 400, "missing")
     ELSE IF op # "patchRecipe" /\ Len(unavailableIds) > 0
     THEN Response(op, 400, "unusable", norm.level, unavailableIds, NoRecipe)
     ELSE Rejected(op, 200, "")

\* the three checks both recipe handlers make on `normalized`, in the code's
\* order; the result is the rejection, or status 200 with no error when the
\* record passes
Validate(op, norm, nodes) ==
  LET unavailableIds ==
        findUnavailableKnowledgeIds(norm.knowledgePoints, nodes, norm.level)
  IN IF \/ Len(norm.knowledgePoints) = 0
        \/ norm.procedure = ""
        \/ norm.level = ""
        \/ norm.description = ""
     THEN Rejected(op, 400, "required")
     ELSE IF ~areValidKnowledgeIds(norm.knowledgePoints, nodes)
     THEN Rejected(op, 400, "missing")
     ELSE IF Len(unavailableIds) > 0
     THEN Response(op, 400, "unusable", norm.level, unavailableIds, NoRecipe)
     ELSE Rejected(op, 200, "")

(***************************************************************************)
(* The endpoints, one request at a time: a handler runs from the request   *)
(* to its response, and the next request is taken once the response has    *)
(* been sent.                                                               *)
(***************************************************************************)
NoResponse == Rejected("none", 0, "")

Idle == resp = NoResponse

\* POST /api/nodes, the body's fields drawn from the given sets
PostNodeOn(contents, levels, categories) ==
  /\ Idle
  /\ \E content \in contents, level \in levels, category \in categories :
       \E norm \in {normalizeNode(content, level, category)} :
         IF norm.content = "" \/ norm.level = "" \/ norm.category = ""
         THEN /\ resp' = Rejected("postNode", 400, "required")
              /\ UNCHANGED dataFile
         ELSE \E list \in {readNodeList(dataFile)} :
                \E record \in {[id |-> nextId(list), content |-> norm.content,
                                level |-> norm.level, category |-> norm.category]} :
                  /\ Len(list) < MaxNodes
                  /\ record.id <= MaxId
                  /\ dataFile' = writeNodeList(dataFile, <<record>> \o list)
                  /\ resp' = Response("postNode", 201, "", "", <<>>, record)
  /\ normalized' = NoNormalized
  /\ UNCHANGED <<ruleVars, inflight, sideVars>>

PostNode ==
  /\ PostNodeOn(ContentInputs, LevelInputs, CategoryInputs)
  /\ UNCHANGED <<bindVars, libVars, devVars>>

\* PATCH /api/nodes/:id, the body's fields (Null: absent) drawn from the
\* given sets
PatchNodeOn(contents, levels, categories) ==
  /\ Idle
  /\ \E list \in {readNodeList(dataFile)} :
       \E param \in ParamInputs :
         \E id \in {parseParamId(param)} :
           IF id = NullId
           THEN /\ resp' = Rejected("patchNode", 400, "badId")
                /\ UNCHANGED dataFile
           ELSE \E index \in {FindIndex(list, id)} :
                  IF index = 0
                  THEN /\ resp' = Rejected("patchNode", 404, "notFound")
                       /\ UNCHANGED dataFile
                  ELSE \E content \in contents, level \in levels,
                          category \in categories :
                         \E norm \in {normalizeNode(
                               IF content = Null THEN list[index].content ELSE content,
                               IF level = Null THEN list[index].level ELSE level,
                               IF category = Null THEN list[index].category
                               ELSE category)} :
                           IF norm.content = "" \/ norm.level = "" \/ norm.category = ""
                           THEN /\ resp' = Rejected("patchNode", 400, "required")
                                /\ UNCHANGED dataFile
                           ELSE \E updated \in {[id |-> list[index].id,
                                                   content |-> norm.content,
                                                   level |-> norm.level,
                                                   category |-> norm.category]} :
                                  /\ dataFile' = writeNodeList(dataFile,
                                        [list EXCEPT ![index] = updated])
                                  /\ resp' = Response("patchNode", 200, "", "",
                                                      <<>>, updated)
  /\ normalized' = NoNormalized
  /\ UNCHANGED <<ruleVars, inflight, extraVars>>

PatchNode ==
  PatchNodeOn(ContentInputs \cup {Null}, LevelInputs \cup {Null},
              CategoryInputs \cup {Null})

\* GET /api/nodes/:id/relative?level=
GetRelative ==
  /\ Idle
  /\ \E param \in ParamInputs, level \in LevelInputs \cup {Null} :
       \E id \in {parseParamId(param)} :
         IF id = NullId
         THEN /\ resp' = Rejected("getRelative", 400, "badId")
              /\ normalized' = NoNormalized
         ELSE \E targetLevel \in {normalizeLevel(level)} :
                IF targetLevel = ""
                THEN /\ resp' = Rejected("getRelative", 400, "badLevel")
                     /\ normalized' = NoNormalized
                ELSE \E list \in {readNodeList(dataFile)} :
                     \E index \in {FindIndex(list, id)} :
                       /\ normalized' = Queried(id, targetLevel)
                       /\ IF index = 0
                          THEN resp' = Rejected("getRelative", 404, "notFound")
                          ELSE \E relativeCategory \in
                                  {getRelativeCategory(list[index], targetLevel)} :
                                 IF relativeCategory = ""
                                 THEN resp' = Response("getRelative", 400, "unusable",
                                                       targetLevel, <<id>>, NoRecipe)
                                 ELSE resp' = Response("getRelative", 200, "", "", <<>>,
                                          [id |-> list[index].id,
                                           content |-> list[index].content,
                                           sourceLevel |-> list[index].level,
                                           sourceCategory |-> list[index].category,
                                           targetLevel |-> targetLevel,
                                           relativeCategory |-> relativeCategory])
  /\ UNCHANGED <<dataFile, ruleVars, inflight, extraVars>>

\* DELETE /api/nodes/:id
DeleteNode ==
  /\ Idle
  /\ \E list \in {readNodeList(dataFile)} :
       \E param \in ParamInputs :
         \E id \in {parseParamId(param)} :
           IF id = NullId
           THEN /\ resp' = Rejected("deleteNode", 400, "badId")
                /\ UNCHANGED dataFile
           ELSE IF FindIndex(list, id) = 0
           THEN /\ resp' = Rejected("deleteNode", 404, "notFound")
                /\ UNCHANGED dataFile
           ELSE /\ dataFile' = writeNodeList(dataFile, WithoutId(list, id))
                /\ resp' = Rejected("deleteNode", 204, "")
  /\ normalized' = NoNormalized
  /\ UNCHANGED <<ruleVars, inflight, extraVars>>

\* mutant: the record is written before the checks are answered
PostRecipe_writeFirst ==
  /\ Idle
  /\ \E store \in {readStore(dataFile)} :
       \E knowledgePoints \in KpInputs \cup {NullValue}, procedure \in ProcedureInputs,
          level \in LevelInputs, description \in DescriptionInputs :
         \E norm \in {normalizeRecipe(knowledgePoints, procedure, level, description)} :
           \E verdict \in {Validate("postRecipe", norm, store.nodes)} :
             \E record \in {[id |-> nextId(store.recipes),
                              knowledgePoints |-> norm.knowledgePoints,
                              procedure |-> norm.procedure, level |-> norm.level,
                              description |-> norm.description]} :
               /\ normalized' = Checked(knowledgePoints, norm)
               /\ Len(store.recipes) < MaxRecipes
               /\ dataFile' = writeRecipeList(dataFile, <<record>> \o store.recipes)
               /\ resp' = IF verdict.status # 200 THEN verdict
                          ELSE Response("postRecipe", 201, "", "", <<>>, record)
  /\ UNCHANGED <<ruleVars, inflight, extraVars>>

\* POST /api/recipes, the body's fields drawn from the given sets; the
\* model takes no create past maxRecipes recipes or past the id maxRecipeId
PostRecipeOn(kpValues, procedures, levels, descriptions, maxRecipes, maxRecipeId) ==
  /\ Idle
  /\ \E store \in {readStore(dataFile)} :
       \E knowledgePoints \in kpValues, procedure \in procedures,
          level \in levels, description \in descriptions :
         \E norm \in {normalizeRecipe(knowledgePoints, procedure, level, description)} :
           \E verdict \in {Validate("postRecipe", norm, store.nodes)} :
             /\ normalized' = Checked(knowledgePoints, norm)
             /\ IF verdict.status # 200
                THEN /\ resp' = verdict
                     /\ UNCHANGED dataFile
                ELSE \E record \in {[id |-> nextId(store.recipes),
                                     knowledgePoints |-> norm.knowledgePoints,
                                     procedure |-> norm.procedure, level |-> norm.level,
                                     description |-> norm.description]} :
                       /\ Len(store.recipes) < maxRecipes
                       /\ record.id <= maxRecipeId
                       /\ dataFile' = writeRecipeList(dataFile, <<record>> \o store.recipes)
                       /\ resp' = Response("postRecipe", 201, "", "", <<>>, record)
  /\ UNCHANGED <<ruleVars, inflight, sideVars>>

PostRecipe ==
  /\ PostRecipeOn(KpInputs \cup {NullValue}, ProcedureInputs, LevelInputs,
                  DescriptionInputs, MaxRecipes, MaxRecipes)
  /\ UNCHANGED <<bindVars, libVars, devVars>>

\* PATCH /api/recipes/:id, the body's fields (NullValue, Null: absent) drawn
\* from the given sets
PatchRecipeOn(kpValues, procedures, levels, descriptions) ==
  /\ Idle
  /\ \E store \in {readStore(dataFile)} :
       \E param \in ParamInputs :
         \E id \in {parseParamId(param)} :
           IF id = NullId
           THEN /\ resp' = Rejected("patchRecipe", 400, "badId")
                /\ normalized' = NoNormalized
                /\ UNCHANGED dataFile
           ELSE \E index \in {FindIndex(store.recipes, id)} :
                  IF index = 0
                  THEN /\ resp' = Rejected("patchRecipe", 404, "notFound")
                       /\ normalized' = NoNormalized
                       /\ UNCHANGED dataFile
                  ELSE \E stored \in {store.recipes[index]} :
                       \E knowledgePoints \in kpValues, procedure \in procedures,
                          level \in levels, description \in descriptions :
                         \E norm \in {normalizeRecipe(
                               IF knowledgePoints = NullValue
                               THEN ArrayValue(MapNumberToken(stored.knowledgePoints))
                               ELSE knowledgePoints,
                               IF procedure = Null THEN stored.procedure ELSE procedure,
                               IF level = Null THEN stored.level ELSE level,
                               IF description = Null THEN stored.description
                               ELSE description)} :
                           \E verdict \in {Validate("patchRecipe", norm, store.nodes)} :
                             /\ normalized' = Checked(knowledgePoints, norm)
                             /\ IF verdict.status # 200
                                THEN /\ resp' = verdict
                                     /\ UNCHANGED dataFile
                                ELSE \E updated \in {[id |-> stored.id,
                                         knowledgePoints |-> norm.knowledgePoints,
                                         procedure |-> norm.procedure,
                                         level |-> norm.level,
                                         description |-> norm.description]} :
                                       /\ dataFile' = writeRecipeList(dataFile,
                                            [store.recipes EXCEPT ![index] = updated])
                                       /\ resp' = Response("patchRecipe", 200, "", "",
                                                           <<>>, updated)
  /\ UNCHANGED <<ruleVars, inflight, sideVars>>

PatchRecipe ==
  /\ PatchRecipeOn(KpInputs \cup {NullValue}, TextPatches, LevelInputs \cup {Null},
                   TextPatches)
  /\ UNCHANGED <<bindVars, libVars, devVars>>

\* DELETE /api/recipes/:id
DeleteRecipe ==
  /\ Idle
  /\ \E list \in {readRecipeList(dataFile)} :
       \E param \in ParamInputs :
         \E id \in {parseParamId(param)} :
           IF id = NullId
           THEN /\ resp' = Rejected("deleteRecipe", 400, "badId")
                /\ UNCHANGED dataFile
           ELSE IF FindIndex(list, id) = 0
           THEN /\ resp' = Rejected("deleteRecipe", 404, "notFound")
                /\ UNCHANGED dataFile
           ELSE /\ dataFile' = writeRecipeList(dataFile, WithoutId(list, id))
                /\ resp' = Rejected("deleteRecipe", 204, "")
  /\ normalized' = NoNormalized
  /\ UNCHANGED <<ruleVars, inflight, extraVars>>

\* the response has been sent and the handler's locals are gone
ResponseSent ==
  /\ ~Idle
  /\ resp' = NoResponse
  /\ normalized' = NoNormalized
  /\ UNCHANGED <<dataFile, ruleVars, inflight, extraVars>>

\* no POST /api/recipes handler is being overlapped
NoRequest ==
  [pc |-> "none", status |-> 0,
   normalized |-> [knowledgePoints |-> <<>>, procedure |-> "", level |-> "",
                   description |-> ""]]

\* the query variables when the store is what is being run
RuleIdle ==
  /\ qNode = [id |-> 0, content |-> "c", level |-> "album", category |-> "form"]
  /\ qLevel = "album"
  /\ qPc = "off"
  /\ qRelative = ""
  /\ qUsable = <<>>
  /\ qUnavailable = <<>>

\* no data file yet: the first readStore writes and returns the empty store
Init ==
  /\ dataFile = [nodes |-> <<>>, recipes |-> <<>>]
  /\ normalized = NoNormalized
  /\ resp = NoResponse
  /\ RuleIdle
  /\ inflight = NoRequest
  /\ ExtraIdle

Next ==
  \/ PostNode
  \/ PatchNode
  \/ DeleteNode
  \/ GetRelative
  \/ PostRecipe
  \/ PatchRecipe
  \/ DeleteRecipe
  \/ ResponseSent

Spec == Init /\ [][Next]_vars

(***************************************************************************)
(* A POST /api/recipes handler that node requests overlap. The handler     *)
(* gives way at its awaits: it reads the node list and makes its checks,   *)
(* and later reads the recipe list and writes it; node requests are        *)
(* handled in between. One such handler is followed per run.               *)
(***************************************************************************)
OverlapKpInputs ==
  {ArrayValue(MapNumberToken(ids)) : ids \in SeqsUpTo(0..MaxId, MaxKp)}

\* POST /api/recipes up to its last check: readNodeList, normalizeRecipe and
\* the three checks; a rejection is answered at once
RecipeChecked ==
  /\ Idle
  /\ inflight.pc = "none"
  /\ \E nodes \in {readNodeList(dataFile)} :
       \E knowledgePoints \in OverlapKpInputs, level \in LEVELS :
         \E norm \in {normalizeRecipe(knowledgePoints, "p", level, "d")} :
           \E verdict \in {Validate("postRecipe", norm, nodes)} :
             inflight' = IF verdict.status # 200
                         THEN [NoRequest EXCEPT !.pc = "answered", !.status = 400]
                         ELSE [pc |-> "checked", status |-> 0, normalized |-> norm]
  /\ UNCHANGED <<storeVars, ruleVars, extraVars>>

\* mutant: the ids are checked again against the node list read at the write
RecipeWritten_rechecked ==
  /\ Idle
  /\ inflight.pc = "checked"
  /\ \E store \in {readStore(dataFile)} :
       \E record \in {[id |-> nextId(store.recipes),
                        knowledgePoints |-> inflight.normalized.knowledgePoints,
                        procedure |-> inflight.normalized.procedure,
                        level |-> inflight.normalized.level,
                        description |-> inflight.normalized.description]} :
         IF Validate("postRecipe", inflight.normalized, store.nodes).status # 200
         THEN /\ inflight' = [inflight EXCEPT !.pc = "answered", !.status = 400]
              /\ UNCHANGED dataFile
         ELSE /\ Len(store.recipes) < MaxRecipes
              /\ dataFile' = writeRecipeList(dataFile, <<record>> \o store.recipes)
              /\ inflight' = [inflight EXCEPT !.pc = "answered", !.status = 201]
  /\ UNCHANGED <<normalized, resp, ruleVars, extraVars>>

\* POST /api/recipes from its last check on: readRecipeList, nextId,
\* writeRecipeList and the 201 answer
RecipeWritten ==
  /\ Idle
  /\ inflight.pc = "checked"
  /\ \E list \in {readRecipeList(dataFile)} :
       \E record \in {[id |-> nextId(list),
                        knowledgePoints |-> inflight.normalized.knowledgePoints,
                        procedure |-> inflight.normalized.procedure,
                        level |-> inflight.normalized.level,
                        description |-> inflight.normalized.description]} :
         /\ Len(list) < MaxRecipes
         /\ dataFile' = writeRecipeList(dataFile, <<record>> \o list)
         /\ inflight' = [inflight EXCEPT !.pc = "answered", !.status = 201]
  /\ UNCHANGED <<normalized, resp, ruleVars, extraVars>>

NextOverlap ==
  \/ PostNode
  \/ PatchNode
  \/ DeleteNode
  \/ ResponseSent
  \/ RecipeChecked
  \/ RecipeWritten

SpecOverlap == Init /\ [][NextOverlap]_vars

(***************************************************************************)
(* The usability rule on its own: every stored node shape against every    *)
(* target level.                                                            *)
(***************************************************************************)
RuleNodes ==
  [id : 0..MaxId, content : {"c"}, level : LEVELS, category : CATEGORY]

\* the store variables when the rule is what is being run
StoreIdle ==
  /\ dataFile = [nodes |-> <<>>, recipes |-> <<>>]
  /\ normalized = NoNormalized
  /\ resp = NoResponse
  /\ inflight = NoRequest

RuleInit ==
  /\ StoreIdle
  /\ ExtraIdle
  /\ qNode \in RuleNodes
  /\ qLevel \in LEVELS
  /\ qPc = "input"
  /\ qRelative = ""
  /\ qUsable = <<>>
  /\ qUnavailable = <<>>

\* the resolver and the validator are applied to the same node and level
Resolve ==
  /\ qPc = "input"
  /\ qRelative' = getRelativeCategory(qNode, qLevel)
  /\ qUsable' = getUsableLevelsForNode(qNode)
  /\ qUnavailable' = findUnavailableKnowledgeIds(<<qNode.id>>, <<qNode>>, qLevel)
  /\ qPc' = "resolved"
  /\ UNCHANGED <<qNode, qLevel, storeVars, inflight, extraVars>>

NextQuery ==
  /\ qPc = "resolved"
  /\ qNode' \in RuleNodes
  /\ qLevel' \in LEVELS
  /\ qPc' = "input"
  /\ qRelative' = ""
  /\ qUsable' = <<>>
  /\ qUnavailable' = <<>>
  /\ UNCHANGED <<storeVars, inflight, extraVars>>

RuleNext ==
  \/ Resolve
  \/ NextQuery

SpecRule == RuleInit /\ [][RuleNext]_vars

(***************************************************************************)
(* The recipe checks on their own, evaluated more than once on the same    *)
(* arguments: node lists as the store holds them, id lists as requests     *)
(* give them.                                                               *)
(***************************************************************************)
\* how many times the checks are evaluated on the same arguments
MaxEvaluations == 2

\* node lists with pairwise distinct ids
NodeLists ==
  {list \in SeqsUpTo(RuleNodes, MaxNodes) :
     \A i, j \in 1..Len(list) : list[i].id = list[j].id => i = j}

ValInit ==
  /\ StoreIdle
  /\ RuleIdle
  /\ BindIdle
  /\ LibIdle
  /\ DevIdle
  /\ ReadIdle
  /\ RaceIdle
  /\ vIds \in SeqsUpTo(0..MaxId, MaxKp)
  /\ vNodes \in NodeLists
  /\ vLevel \in LEVELS
  /\ vOutcomes = <<>>

\* mutant: the evaluation takes the first id off the list it was given
Evaluate_idsConsumed ==
  /\ Len(vOutcomes) < MaxEvaluations
  /\ vOutcomes' = Append(vOutcomes,
        Validate("postRecipe",
                 [knowledgePoints |-> vIds, procedure |-> "p", level |-> vLevel,
                  description |-> "d"],
                 vNodes))
  /\ vIds' = IF vIds = <<>> THEN vIds ELSE Tail(vIds)
  /\ UNCHANGED <<vNodes, vLevel, storeVars, ruleVars, inflight, notVal>>

\* the checks of a recipe handler on ids, nodes and level: they build their
\* own Set and Map and leave their arguments as they were
Evaluate ==
  /\ Len(vOutcomes) < MaxEvaluations
  /\ vOutcomes' = Append(vOutcomes,
        Validate("postRecipe",
                 [knowledgePoints |-> vIds, procedure |-> "p", level |-> vLevel,
                  description |-> "d"],
                 vNodes))
  /\ UNCHANGED <<vIds, vNodes, vLevel, storeVars, ruleVars, inflight, notVal>>

ValNext == Evaluate

SpecVal == ValInit /\ [][ValNext]_vars

(***************************************************************************)
(* The handlers run one after another from the empty store on requests     *)
(* that are mostly accepted, with room for two recipes, so that ids are    *)
(* handed out, freed and handed out again in both lists.                   *)
(***************************************************************************)
IdsLevelInputs == {"album", "single"}

IdsKpInputs == {ArrayValue(<<NumberToken(n)>>) : n \in 0..MaxId}

IdsPostNode ==
  /\ PostNodeOn({"c"}, IdsLevelInputs, {"form"})
  /\ UNCHANGED <<bindVars, libVars, devVars>>

IdsPatchNode == PatchNodeOn({Null}, IdsLevelInputs, {Null})

IdsPostRecipe ==
  /\ PostRecipeOn(IdsKpInputs, {"p"}, {"album"}, {"d"}, IdsMaxRecipes, IdsMaxRecipeId)
  /\ UNCHANGED <<bindVars, libVars, devVars>>

IdsPatchRecipe ==
  /\ PatchRecipeOn(IdsKpInputs, {Null}, {Null}, {Null})
  /\ UNCHANGED <<bindVars, libVars, devVars>>

IdsNext ==
  \/ IdsPostNode
  \/ IdsPatchNode
  \/ DeleteNode
  \/ IdsPostRecipe
  \/ IdsPatchRecipe
  \/ DeleteRecipe
  \/ ResponseSent

SpecIds == Init /\ [][IdsNext]_vars

(***************************************************************************)
(* The same sequential runs with a record of which node each id stood for  *)
(* when a recipe was accepted.                                             *)
(***************************************************************************)
\* the nodeGen of the ids a recipe names, 0 for the others
SeenBy(knowledgePoints, generations) ==
  [id \in 0..MaxId |-> IF id \in Range(knowledgePoints) THEN generations[id] ELSE 0]

BindPostNode ==
  /\ PostNodeOn({"c"}, IdsLevelInputs, {"form"})
  /\ IF resp'.status = 201
     THEN /\ nodeGen[resp'.record.id] < MaxGenerations
          /\ nodeGen' = [nodeGen EXCEPT ![resp'.record.id] = @ + 1]
          /\ staleRefs' = {dataFile.recipes[k].id : k \in
                 {j \in 1..Len(dataFile.recipes) :
                    resp'.record.id \in Range(dataFile.recipes[j].knowledgePoints)}}
     ELSE UNCHANGED <<nodeGen, staleRefs>>
  /\ UNCHANGED <<recipeSeen, libVars, devVars>>

BindPostRecipe ==
  /\ PostRecipeOn(IdsKpInputs, {"p"}, {"album"}, {"d"}, IdsMaxRecipes, IdsMaxRecipeId)
  /\ recipeSeen' = IF resp'.status = 201
                   THEN [recipeSeen EXCEPT ![resp'.record.id] =
                           SeenBy(resp'.record.knowledgePoints, nodeGen)]
                   ELSE recipeSeen
  /\ UNCHANGED <<nodeGen, staleRefs, libVars, devVars>>

BindPatchRecipe ==
  /\ PatchRecipeOn(IdsKpInputs, {Null}, {Null}, {Null})
  /\ recipeSeen' = IF resp'.status = 200
                   THEN [recipeSeen EXCEPT ![resp'.record.id] =
                           SeenBy(resp'.record.knowledgePoints, nodeGen)]
                   ELSE recipeSeen
  /\ UNCHANGED <<nodeGen, staleRefs, libVars, devVars>>

BindNext ==
  \/ BindPostNode
  \/ IdsPatchNode
  \/ DeleteNode
  \/ BindPostRecipe
  \/ BindPatchRecipe
  \/ DeleteRecipe
  \/ ResponseSent

SpecBind == Init /\ [][BindNext]_vars

(***************************************************************************)
(* The library: entries and their refined records, kept by one of two      *)
(* stores (library-db-fallback.js, library-db-sqlite.js) behind the        *)
(* /library-api routes.  A text is the sequence of its pieces; the piece   *)
(* "|" is the character the hash input is joined with.                     *)
(***************************************************************************)
\* a field that the request leaves out (undefined)
Absent == <<"undefined">>

\* value || otherwise, for a text or undefined
OrElse(value, otherwise) ==
  IF value = Absent \/ value = <<>> THEN otherwise ELSE value

\* value !== undefined ? value : current
DefinedOr(value, current) == IF value # Absent THEN value ELSE current

\* the sha256 hex digest of a text: never empty, and taken to differ for
\* different texts
computeHash(value) == <<"sha256">> \o OrElse(value, <<>>)

\* the template `${type}|${title}|${content}`
HashText(type, title, content) == type \o <<"|">> \o title \o <<"|">> \o content

NoEntry ==
  [id |-> 0, title |-> <<>>, content |-> <<>>, source |-> <<>>, type |-> <<>>,
   hash |-> <<>>]

\* entries.find(item => item.id === id) / SELECT ... WHERE id = ?: the entry,
\* or NoEntry for none
getEntryById(store, id) ==
  IF \E k \in 1..Len(store.entries) : store.entries[k].id = id
  THEN store.entries[CHOOSE k \in 1..Len(store.entries) :
                       /\ store.entries[k].id = id
                       /\ \A j \in 1..(k - 1) : store.entries[j].id # id]
  ELSE NoEntry

HasEntry(store, id) == \E k \in 1..Len(store.entries) : store.entries[k].id = id

HasRefined(store, id) ==
  \E k \in 1..Len(store.refinedEntries) : store.refinedEntries[k].entry_id = id

\* fallback store: max id + 1, 1 for no entries
nextEntryId(entries) ==
  IF Len(entries) = 0 THEN 1
  ELSE MaxOf({entries[k].id : k \in 1..Len(entries)}) + 1

\* sqlite: the rowid an AUTOINCREMENT table gives, one past the largest it
\* has ever given
nextRowId(store) ==
  MaxOf({store.seq} \cup {store.entries[k].id : k \in 1..Len(store.entries)}) + 1

\* insertEntry of either store: the new store and the id returned
insertEntry(backend, store, title, content, source, type) ==
  LET safeType == OrElse(type, <<"note">>)
      hash == computeHash(HashText(safeType, OrElse(title, <<>>),
                                   OrElse(content, <<>>)))
  IN IF backend = "fallback"
     THEN LET id == nextEntryId(store.entries)
              record == [id |-> id, title |-> OrElse(title, <<>>),
                         content |-> OrElse(content, <<>>),
                         source |-> OrElse(source, <<>>), type |-> safeType,
                         hash |-> hash]
          IN [store |-> [store EXCEPT !.entries = Append(@, record)], id |-> id]
     ELSE LET id == nextRowId(store)
              record == [id |-> id, title |-> title, content |-> content,
                         source |-> source, type |-> safeType, hash |-> hash]
          IN [store |-> [store EXCEPT !.entries = Append(@, record), !.seq = id],
              id |-> id]

\* updateEntryById of either store: the new store and the updated entry,
\* NoEntry for the result null
updateEntryById(backend, store, id, title, content, source, type) ==
  IF ~HasEntry(store, id) THEN [store |-> store, updated |-> NoEntry]
  ELSE LET index == CHOOSE k \in 1..Len(store.entries) : store.entries[k].id = id
           current == store.entries[index]
           nextTitle == DefinedOr(title, current.title)
           nextContent == DefinedOr(content, current.content)
           nextSource == DefinedOr(source, current.source)
           next ==
             IF backend = "fallback"
             THEN LET nextType == DefinedOr(type, current.type)
                  IN [id |-> id, title |-> nextTitle, content |-> nextContent,
                      source |-> nextSource, type |-> nextType,
                      hash |-> computeHash(HashText(OrElse(nextType, <<"note">>),
                                                    OrElse(nextTitle, <<>>),
                                                    OrElse(nextContent, <<>>)))]
             ELSE LET nextType == DefinedOr(type, OrElse(current.type, <<"note">>))
                  IN [id |-> id, title |-> nextTitle, content |-> nextContent,
                      source |-> nextSource, type |-> nextType,
                      hash |-> computeHash(HashText(nextType,
                                                    OrElse(nextTitle, <<>>),
                                                    OrElse(nextContent, <<>>)))]
       IN [store |-> [store EXCEPT !.entries[index] = next], updated |-> next]

\* mutant: only the entry is removed
deleteEntryById_entryOnly(backend, store, id) ==
  LET keep(entry) == entry.id # id
  IN [store EXCEPT !.entries = SelectSeq(@, keep)]

\* deleteEntryById of either store: the fallback store filters both lists,
\* the sqlite store deletes the row and the foreign key (ON DELETE CASCADE,
\* PRAGMA foreign_keys = ON) deletes the refined row
deleteEntryById(backend, store, id) ==
  LET keep(entry) == entry.id # id
      keepRefined(entry) == entry.entry_id # id
  IN [store EXCEPT !.entries = SelectSeq(@, keep),
                   !.refinedEntries = SelectSeq(@, keepRefined)]

\* upsertRefinedEntry of either store: the new store, and whether the
\* statement failed (sqlite: the foreign key has no entry to refer to)
upsertRefinedEntry(backend, store, entryId, type, title, hash) ==
  LET record == [entry_id |-> entryId, type |-> OrElse(type, <<"note">>),
                 title |-> OrElse(title, <<>>), hash |-> OrElse(hash, <<>>)]
  IN IF backend = "sqlite" /\ ~HasEntry(store, entryId)
     THEN [store |-> store, failed |-> TRUE]
     ELSE IF HasRefined(store, entryId)
     THEN LET index == CHOOSE k \in 1..Len(store.refinedEntries) :
                         /\ store.refinedEntries[k].entry_id = entryId
                         /\ \A j \in 1..(k - 1) :
                              store.refinedEntries[j].entry_id # entryId
          IN [store |-> [store EXCEPT !.refinedEntries[index] = record],
              failed |-> FALSE]
     ELSE [store |-> [store EXCEPT !.refinedEntries = Append(@, record)],
           failed |-> FALSE]

deleteRefinedEntryById(backend, store, id) ==
  LET keepRefined(entry) == entry.entry_id # id
  IN [store EXCEPT !.refinedEntries = SelectSeq(@, keepRefined)]

\* refinedMap.get(id) / the joined row of refined_entries; asked only for
\* ids that have one
RefinedOf(store, id) ==
  store.refinedEntries[CHOOSE k \in 1..Len(store.refinedEntries) :
     /\ store.refinedEntries[k].entry_id = id
     /\ \A j \in (k + 1)..Len(store.refinedEntries) :
          store.refinedEntries[j].entry_id # id]

\* rows in the order ORDER BY id DESC
RECURSIVE OrderByIdDesc(_)
OrderByIdDesc(ids) ==
  IF ids = {} THEN <<>>
  ELSE LET top == MaxOf(ids) IN <<top>> \o OrderByIdDesc(ids \ {top})

\* the ids of the rows a listing returns, selectedIds being the ids its
\* condition holds for: the fallback store filters the entries in their
\* order, the sqlite store orders by id
RowsOf(backend, store, selectedIds) ==
  IF backend = "fallback"
  THEN LET ids == [k \in 1..Len(store.entries) |-> store.entries[k].id]
           selected(id) == id \in selectedIds
       IN SelectSeq(ids, selected)
  ELSE OrderByIdDesc({store.entries[k].id : k \in 1..Len(store.entries)}
                       \cap selectedIds)

\* listModifiedEntries: the ids of its rows.  fallback: refined && refined.hash
\* && refined.hash !== entry.hash; sqlite: JOIN ... WHERE both hashes NOT NULL
\* AND e.hash != r.hash
listModifiedEntries(backend, store) ==
  LET selected(id) ==
        /\ HasRefined(store, id)
        /\ IF backend = "fallback"
           THEN /\ RefinedOf(store, id).hash # <<>>
                /\ RefinedOf(store, id).hash # getEntryById(store, id).hash
           ELSE RefinedOf(store, id).hash # getEntryById(store, id).hash
  IN RowsOf(backend, store,
            {store.entries[k].id : k \in
               {j \in 1..Len(store.entries) : selected(store.entries[j].id)}})

\* mutant: every entry is new
listNewEntries_all(backend, store) ==
  RowsOf(backend, store, {store.entries[k].id : k \in 1..Len(store.entries)})

\* listNewEntries: the ids of its rows.  fallback: !refinedSet.has(entry.id);
\* sqlite: LEFT JOIN ... WHERE r.entry_id IS NULL
listNewEntries(backend, store) ==
  RowsOf(backend, store,
         {store.entries[k].id : k \in
            {j \in 1..Len(store.entries) : ~HasRefined(store, store.entries[j].id)}})

\* listRefinedEntries: entry_id, type and title of the refined records, by
\* entry_id descending
listRefinedEntries(backend, store) ==
  LET ordered == OrderByIdDesc({store.refinedEntries[k].entry_id :
                                  k \in 1..Len(store.refinedEntries)})
  IN [k \in 1..Len(ordered) |->
        [entry_id |-> ordered[k], type |-> RefinedOf(store, ordered[k]).type,
         title |-> RefinedOf(store, ordered[k]).title]]

\* the texts requests carry: titles and contents of which two pairs join to
\* the same hash input, and an empty content
TitleInputs == {<<"a">>, <<"a", "|", "b">>}

ContentTexts == {<<"c">>, <<"b", "|", "c">>}

\* the type of a PUT: left out, or the empty text
TypePatches == {Absent, <<>>}

SourcePatches == {Absent, <<"s">>}

\* Number(req.params.id), Number(entryId): -1 stands for a text that is no
\* number, 0 for a number that no entry has
LibIdInputs == (0 - 1)..MaxEntryId

LibResponse(op, status, id, rows) ==
  [op |-> op, status |-> status, id |-> id, rows |-> rows]

LibInit ==
  /\ StoreIdle
  /\ RuleIdle
  /\ ValIdle
  /\ ReadIdle
  /\ RaceIdle
  /\ BindIdle
  /\ DevIdle
  /\ libBackend \in {"fallback", "sqlite"}
  /\ libStore = EmptyLibrary
  /\ refinedJson = <<>>
  /\ libResp = NoLibResponse

\* POST /library-api/entries
PostEntry ==
  /\ \E title \in TitleInputs, content \in ContentTexts \cup {<<>>} :
       IF content = <<>>
       THEN /\ libResp' = LibResponse("postEntry", 400, 0, <<>>)
            /\ UNCHANGED libStore
       ELSE \E inserted \in {insertEntry(libBackend, libStore, OrElse(title, <<>>),
                                         content, OrElse(Absent, <<>>),
                                         OrElse(Absent, <<"note">>))} :
              /\ Len(libStore.entries) < MaxEntries
              /\ inserted.id <= MaxEntryId
              /\ libStore' = inserted.store
              /\ libResp' = LibResponse("postEntry", 201, inserted.id, <<>>)
  /\ UNCHANGED <<libBackend, refinedJson, storeVars, ruleVars, inflight, notLib>>

\* PUT /library-api/entries/:id
PutEntry ==
  /\ \E id \in LibIdInputs :
       IF id < 0
       THEN /\ libResp' = LibResponse("putEntry", 400, 0, <<>>)
            /\ UNCHANGED libStore
       ELSE \E title \in TitleInputs \cup {Absent},
               content \in ContentTexts \cup {Absent},
               source \in SourcePatches, type \in TypePatches :
              \E result \in {updateEntryById(libBackend, libStore, id, title,
                                             content, source, type)} :
                IF result.updated = NoEntry
                THEN /\ libResp' = LibResponse("putEntry", 404, id, <<>>)
                     /\ UNCHANGED libStore
                ELSE /\ libStore' = result.store
                     /\ libResp' = LibResponse("putEntry", 200, id, <<>>)
  /\ UNCHANGED <<libBackend, refinedJson, storeVars, ruleVars, inflight, notLib>>

\* DELETE /library-api/entries/:id and DELETE /library-api/agent/entries/:id
DeleteEntry ==
  /\ \E id \in LibIdInputs :
       IF id < 0
       THEN /\ libResp' = LibResponse("deleteEntry", 400, 0, <<>>)
            /\ UNCHANGED <<libStore, refinedJson>>
       ELSE /\ libStore' = deleteEntryById(libBackend, libStore, id)
            /\ refinedJson' = listRefinedEntries(libBackend, libStore')
            /\ libResp' = LibResponse("deleteEntry", 204, id, <<>>)
  /\ UNCHANGED <<libBackend, storeVars, ruleVars, inflight, notLib>>

\* GET /library-api/agent/entries/modified
GetModified ==
  /\ libResp' = LibResponse("getModified", 200, 0,
                            listModifiedEntries(libBackend, libStore))
  /\ UNCHANGED <<libBackend, libStore, refinedJson, storeVars, ruleVars, inflight,
                 notLib>>

\* GET /library-api/agent/entries/new
GetNew ==
  /\ libResp' = LibResponse("getNew", 200, 0, listNewEntries(libBackend, libStore))
  /\ UNCHANGED <<libBackend, libStore, refinedJson, storeVars, ruleVars, inflight,
                 notLib>>

\* POST /library-api/agent/refined, its body without type and title and
\* with data that parses
PostRefined ==
  /\ \E id \in LibIdInputs :
       IF id < 0
       THEN /\ libResp' = LibResponse("postRefined", 400, 0, <<>>)
            /\ UNCHANGED <<libStore, refinedJson>>
       ELSE \E entry \in {getEntryById(libStore, id)} :
              IF entry = NoEntry
              THEN /\ libResp' = LibResponse("postRefined", 404, id, <<>>)
                   /\ UNCHANGED <<libStore, refinedJson>>
              ELSE \E result \in {upsertRefinedEntry(libBackend, libStore, id,
                                     OrElse(Absent, OrElse(entry.type, <<"note">>)),
                                     OrElse(Absent, OrElse(entry.title, <<>>)),
                                     OrElse(entry.hash, <<>>))} :
                     IF result.failed
                     THEN /\ libResp' = LibResponse("postRefined", 500, id, <<>>)
                          /\ UNCHANGED <<libStore, refinedJson>>
                     ELSE /\ libStore' = result.store
                          /\ refinedJson' = listRefinedEntries(libBackend, libStore')
                          /\ libResp' = LibResponse("postRefined", 201, id, <<>>)
  /\ UNCHANGED <<libBackend, storeVars, ruleVars, inflight, notLib>>

\* DELETE /library-api/agent/refined/:id
DeleteRefined ==
  /\ \E id \in LibIdInputs :
       IF id < 0
       THEN /\ libResp' = LibResponse("deleteRefined", 400, 0, <<>>)
            /\ UNCHANGED <<libStore, refinedJson>>
       ELSE /\ libStore' = deleteRefinedEntryById(libBackend, libStore, id)
            /\ refinedJson' = listRefinedEntries(libBackend, libStore')
            /\ libResp' = LibResponse("deleteRefined", 204, id, <<>>)
  /\ UNCHANGED <<libBackend, storeVars, ruleVars, inflight, notLib>>

LibNext ==
  \/ PostEntry
  \/ PutEntry
  \/ DeleteEntry
  \/ GetModified
  \/ GetNew
  \/ PostRefined
  \/ DeleteRefined

SpecLib == LibInit /\ [][LibNext]_vars

(***************************************************************************)
(* The dev supervisor (scripts/dev.cjs): it spawns backend and frontend,   *)
(* and shuts both down when one of them ends or a signal arrives.          *)
(***************************************************************************)
\* the exit codes a child ends with
MaxExitCode == 2

\* stopAsked counts no further than this
MaxStops == 2

DevInit ==
  /\ StoreIdle
  /\ RuleIdle
  /\ ValIdle
  /\ ReadIdle
  /\ RaceIdle
  /\ BindIdle
  /\ LibIdle
  /\ platform \in {"win32", "posix"}
  /\ shuttingDown = FALSE
  /\ childStatus \in [Children -> {"running", "failing"}]
  /\ childKilled = [c \in Children |-> FALSE]
  /\ stopAsked = [c \in Children |-> 0]
  /\ timerCode = NoCode
  /\ processExit = NoCode
  /\ devEvent = NoEvent

\* stopChild(child): whether the child gets past `!child || child.killed`
StopReaches(c) == ~childKilled[c]

\* child.killed after stopChild(child): child.kill("SIGTERM") sets it when the
\* signal was sent, which needs a living process; taskkill leaves it alone
KilledAfterStop(c) ==
  IF StopReaches(c) /\ platform # "win32" /\ childStatus[c] = "running"
  THEN TRUE ELSE childKilled[c]

StopsAfterStop(c) ==
  IF StopReaches(c) /\ stopAsked[c] < MaxStops THEN stopAsked[c] + 1
  ELSE stopAsked[c]

\* mutant: shutdown without its shuttingDown guard
shutdown_unguarded(exitCode) ==
  /\ shuttingDown' = TRUE
  /\ childKilled' = [c \in Children |-> KilledAfterStop(c)]
  /\ stopAsked' = [c \in Children |-> StopsAfterStop(c)]
  /\ timerCode' = exitCode

\* shutdown(exitCode)
shutdown(exitCode) ==
  IF shuttingDown
  THEN UNCHANGED <<shuttingDown, childKilled, stopAsked, timerCode>>
  ELSE /\ shuttingDown' = TRUE
       /\ childKilled' = [c \in Children |-> KilledAfterStop(c)]
       /\ stopAsked' = [c \in Children |-> StopsAfterStop(c)]
       /\ timerCode' = exitCode

Running == processExit = NoCode

\* child.on("error"): the spawn failed, or a child told to stop could not
\* be killed
ChildError(c) ==
  /\ Running
  /\ \/ /\ childStatus[c] = "failing"
        /\ childStatus' = [childStatus EXCEPT ![c] = "failed"]
     \/ /\ childStatus[c] = "running"
        /\ stopAsked[c] > 0
        /\ UNCHANGED childStatus
  /\ devEvent' = [kind |-> "error", child |-> c, code |-> NoCode]
  /\ shutdown(1)
  /\ UNCHANGED <<platform, processExit, storeVars, ruleVars, inflight, notDev>>

\* child.on("exit") with a code (signal null), or with a signal (code null,
\* written NoCode)
ChildExit(c) ==
  /\ Running
  /\ childStatus[c] = "running"
  /\ childStatus' = [childStatus EXCEPT ![c] = "exited"]
  /\ \E code \in 0..MaxExitCode \cup {NoCode} :
       /\ devEvent' = [kind |-> IF code = NoCode THEN "killed" ELSE "exit",
                       child |-> c, code |-> code]
       /\ IF shuttingDown
          THEN UNCHANGED <<shuttingDown, childKilled, stopAsked, timerCode>>
          ELSE IF code = 0 THEN shutdown(0)
          ELSE shutdown(IF code # NoCode THEN code ELSE 1)
  /\ UNCHANGED <<platform, processExit, storeVars, ruleVars, inflight, notDev>>

\* process.on("SIGINT"), process.on("SIGTERM")
Signal ==
  /\ Running
  /\ \E signal \in {"SIGINT", "SIGTERM"} :
       devEvent' = [kind |-> signal, child |-> 0, code |-> NoCode]
  /\ shutdown(0)
  /\ UNCHANGED <<platform, childStatus, processExit, storeVars, ruleVars, inflight,
                 notDev>>

\* the setTimeout callback: process.exit(exitCode)
TimerFires ==
  /\ Running
  /\ timerCode # NoCode
  /\ processExit' = timerCode
  /\ devEvent' = [kind |-> "timer", child |-> 0, code |-> timerCode]
  /\ UNCHANGED <<platform, shuttingDown, childStatus, childKilled, stopAsked,
                 timerCode, storeVars, ruleVars, inflight, notDev>>

DevNext ==
  \/ \E c \in Children : ChildError(c)
  \/ \E c \in Children : ChildExit(c)
  \/ Signal
  \/ TimerFires

\* the event loop runs a timer that is due
SpecDev == DevInit /\ [][DevNext]_vars /\ WF_vars(TimerFires)

(***************************************************************************)
(* readStore on a data file of any content: ids that are numbers, digit    *)
(* strings, other strings or absent, repeated ids, records with empty      *)
(* fields, lists that are no arrays, and the `music` list of the old       *)
(* format.                                                                 *)
(***************************************************************************)
\* an id field that is absent
NullToken == [kind |-> "null", val |-> 0 - 2]

\* String(value ?? ""): the key of nodeIdMap.  A number and its digits give
\* the same key; the number -1 and the text "-1", for which StringToken(-1)
\* stands here, give the same key; an absent id gives the empty text,
\* written -2
OldIdKey(value) == value.val

\* one element of preparedNodes with its oldIdKey, existingNumericId in the
\* field id
RawPrepareNode(node, norm) ==
  IF norm.content = "" \/ norm.level = "" THEN <<>>
  ELSE <<[oldIdKey |-> OldIdKey(node.id), id |-> normalizeNumericId(node.id),
          content |-> norm.content, level |-> norm.level,
          category |-> IF norm.category # "" THEN norm.category ELSE "form"]>>

RECURSIVE RawPrepareNodes(_)
RawPrepareNodes(rawNodes) ==
  IF rawNodes = <<>> THEN <<>>
  ELSE RawPrepareNode(Head(rawNodes),
                      normalizeNode(Head(rawNodes).content, Head(rawNodes).level,
                                    Head(rawNodes).category))
       \o RawPrepareNodes(Tail(rawNodes))

\* nodeIdMap.get(key) after the node loop, NullId when the key was never
\* set: a later node with the same key replaced the entry of an earlier one
NodeIdMapGet(assigned, key) ==
  LET set == {k \in 1..Len(assigned) : assigned[k].oldIdKey = key}
  IN IF set = {} THEN NullId ELSE assigned[MaxOf(set)].id

\* convertedKnowledgePoints before its filter
RECURSIVE ConvertKnowledgePoints(_, _)
ConvertKnowledgePoints(items, assigned) ==
  IF items = <<>> THEN <<>>
  ELSE LET numeric == normalizeNumericId(Head(items))
       IN <<IF numeric # NullId THEN numeric
            ELSE NodeIdMapGet(assigned, OldIdKey(Head(items)))>>
          \o ConvertKnowledgePoints(Tail(items), assigned)

\* preparedRecipes of a file of any content, existingNumericId in the field id
RECURSIVE RawPrepareRecipes(_, _, _)
RawPrepareRecipes(rawRecipes, assigned, nodes) ==
  IF rawRecipes = <<>> THEN <<>>
  ELSE LET recipe == Head(rawRecipes)
           notNull(id) == id # NullId
           converted ==
             IF recipe.knowledgePoints.kind = "array"
             THEN SelectSeq(ConvertKnowledgePoints(recipe.knowledgePoints.items,
                                                   assigned), notNull)
             ELSE <<>>
           norm == normalizeRecipe(recipe.knowledgePoints, recipe.procedure,
                                   recipe.level, recipe.description)
       IN PrepareRecipe([id |-> normalizeNumericId(recipe.id)],
                        [norm EXCEPT !.knowledgePoints = converted], nodes)
          \o RawPrepareRecipes(Tail(rawRecipes), assigned, nodes)

\* Array.isArray(value) ? value : []
ItemsOf(value) == IF value.kind = "array" THEN value.items ELSE <<>>

\* readStore of a file that parses to `file`
readStoreParsed(file) ==
  LET assigned == AssignIds(RawPrepareNodes(ItemsOf(file.nodes)), {})
      nodes == [k \in 1..Len(assigned) |->
                  [id |-> assigned[k].id, content |-> assigned[k].content,
                   level |-> assigned[k].level, category |-> assigned[k].category]]
      recipes == AssignIds(RawPrepareRecipes(ItemsOf(file.recipes), assigned, nodes), {})
  IN IF nodes = <<>> /\ file.music.kind = "array"
     THEN [nodes |-> [index \in 1..Len(file.music.items) |->
                        [id |-> index - 1,
                         content |-> toSafeString(file.music.items[index].description),
                         level |-> "single", category |-> "form"]],
           recipes |-> recipes]
     ELSE [nodes |-> nodes, recipes |-> recipes]

\* the ids found in data files
RawIdTokens ==
  {NumberToken(n) : n \in (0 - 1)..MaxId} \cup {StringToken(n) : n \in {0 - 1, MaxId}}
    \cup {NullToken}

RawNodes ==
  {[id |-> id, content |-> shape[1], level |-> "album", category |-> shape[2]] :
     id \in RawIdTokens, shape \in {<<"c", "form">>, <<"c", "shape">>, <<"", "form">>}}

RawKpTokens ==
  {NumberToken(n) : n \in (0 - 1)..MaxId} \cup {StringToken(0 - 1), NullToken}

RawRecipes ==
  {[id |-> NumberToken(0), knowledgePoints |-> kp, procedure |-> "p",
    level |-> "album", description |-> description] :
     kp \in {ArrayValue(items) : items \in SeqsUpTo(RawKpTokens, MaxKp)}
             \cup {NotAnArray},
     description \in DescriptionInputs}

RawMusic ==
  {NotAnArray, ArrayValue(<<>>), ArrayValue(<<[description |-> "d"]>>),
   ArrayValue(<<[description |-> Null], [description |-> "d"]>>)}

ReadInit ==
  /\ StoreIdle
  /\ RuleIdle
  /\ BindIdle
  /\ LibIdle
  /\ DevIdle
  /\ ValIdle
  /\ RaceIdle
  /\ parsed \in [nodes : {ArrayValue(items) : items \in SeqsUpTo(RawNodes, MaxNodes)}
                         \cup {NotAnArray},
                 recipes : {ArrayValue(items) : items \in SeqsUpTo(RawRecipes, MaxRecipes)}
                           \cup {NotAnArray},
                 music : RawMusic]
  /\ view = [nodes |-> <<>>, recipes |-> <<>>]
  /\ readPc = "file"

\* readStore() returns
ReadStore ==
  /\ readPc = "file"
  /\ view' = readStoreParsed(parsed)
  /\ readPc' = "returned"
  /\ UNCHANGED <<parsed, storeVars, ruleVars, inflight, notRead>>

ReadNext == ReadStore

SpecRead == ReadInit /\ [][ReadNext]_vars

(***************************************************************************)
(* Two handlers of POST /api/nodes or POST /api/recipes whose awaits       *)
(* interleave.  A handler reads its list, builds the record, and calls     *)
(* writeNodeList or writeRecipeList, which reads the store again and       *)
(* writes it back with the list replaced: three file accesses, each at     *)
(* its own moment, with nothing that keeps the other handler out.          *)
(***************************************************************************)
Other(w) == 3 - w

\* the record a handler builds and writes
RecordOf(writer) ==
  IF writer.op = "postNode"
  THEN [id |-> writer.id, content |-> "c", level |-> writer.level, category |-> "form"]
  ELSE [id |-> writer.id, knowledgePoints |-> writer.knowledgePoints,
        procedure |-> "p", level |-> writer.level, description |-> "d"]

\* POST /api/nodes up to the return of readNodeList and the new record
NodeListRead(w) ==
  /\ writers[w].pc = "idle"
  /\ \E level \in IdsLevelInputs :
       \E list \in {readNodeList(dataFile)} :
         /\ Len(list) < MaxNodes
         /\ nextId(list) <= MaxId
         /\ writers' = [writers EXCEPT ![w] =
               [NoWriter EXCEPT !.op = "postNode", !.pc = "listRead", !.list = list,
                                !.id = nextId(list), !.level = level]]
  /\ UNCHANGED <<overlapped, storeVars, ruleVars, inflight, notRace>>

\* POST /api/recipes up to the return of readNodeList and the checks
RecipeNodesRead(w) ==
  /\ writers[w].pc = "idle"
  /\ \E knowledgePoints \in IdsKpInputs :
       \E nodes \in {readNodeList(dataFile)} :
         \E norm \in {normalizeRecipe(knowledgePoints, "p", "album", "d")} :
           \E verdict \in {Validate("postRecipe", norm, nodes)} :
             writers' = [writers EXCEPT ![w] =
               IF verdict.status # 200
               THEN [NoWriter EXCEPT !.op = "postRecipe", !.pc = "done",
                                     !.status = verdict.status]
               ELSE [NoWriter EXCEPT !.op = "postRecipe", !.pc = "checked",
                                     !.level = norm.level,
                                     !.knowledgePoints = norm.knowledgePoints]]
  /\ UNCHANGED <<overlapped, storeVars, ruleVars, inflight, notRace>>

\* POST /api/recipes: the return of readRecipeList and the new record
RecipeListRead(w) ==
  /\ writers[w].pc = "checked"
  /\ \E list \in {readRecipeList(dataFile)} :
       /\ Len(list) < IdsMaxRecipes
       /\ nextId(list) <= IdsMaxRecipeId
       /\ writers' = [writers EXCEPT ![w].pc = "listRead", ![w].list = list,
                                     ![w].id = nextId(list)]
  /\ UNCHANGED <<overlapped, storeVars, ruleVars, inflight, notRace>>

\* writeNodeList / writeRecipeList: const store = await readStore()
StoreReread(w) ==
  /\ writers[w].pc = "listRead"
  /\ writers' = [writers EXCEPT ![w].pc = "storeRead",
                                ![w].store = readStore(dataFile)]
  /\ UNCHANGED <<overlapped, storeVars, ruleVars, inflight, notRace>>

\* writeNodeList / writeRecipeList: await writeStore({...store, list}), and
\* the 201 response
StoreWritten(w) ==
  /\ writers[w].pc = "storeRead"
  /\ \E list \in {<<RecordOf(writers[w])>> \o writers[w].list} :
       dataFile' = IF writers[w].op = "postNode"
                   THEN [writers[w].store EXCEPT !.nodes = list]
                   ELSE [writers[w].store EXCEPT !.recipes = list]
  /\ writers' = [writers EXCEPT ![w].pc = "done", ![w].status = 201]
  /\ overlapped' = (overlapped \/ writers[Other(w)].pc \in {"checked", "listRead", "storeRead"})
  /\ UNCHANGED <<normalized, resp, ruleVars, inflight, notRace>>

\* the response has gone out; the next request is handled from the start
Returned(w) ==
  /\ writers[w].pc = "done"
  /\ writers' = [writers EXCEPT ![w] = NoWriter]
  /\ overlapped' = FALSE
  /\ UNCHANGED <<storeVars, ruleVars, inflight, notRace>>

RaceNext ==
  \E w \in Writers :
    \/ NodeListRead(w)
    \/ RecipeNodesRead(w)
    \/ RecipeListRead(w)
    \/ StoreReread(w)
    \/ StoreWritten(w)
    \/ Returned(w)

SpecRace == Init /\ [][RaceNext]_vars

(***************************************************************************)
(* The level scale as the claims state it: album > single > segment >      *)
(* phrase > timbre, coarsest first.                                         *)
(***************************************************************************)
Rank ==
  [album |-> 0, single |-> 1, segment |-> 2, phrase |-> 3, timbre |-> 4]

\* target is one step coarser than level
OneCoarser(target, level) == Rank[target] + 1 = Rank[level]

\* target is one step finer than level
OneFiner(target, level) == Rank[target] = Rank[level] + 1

\* target is two or more steps from level
TwoOrMore(target, level) ==
  Rank[target] + 1 < Rank[level] \/ Rank[level] + 1 < Rank[target]

\* the single-hop rule: at one of the five levels, a node is usable at its
\* own level, a form one step up, a material one step down
SingleHopUsable(node, target) ==
  /\ target \in DOMAIN Rank
  /\ \/ target = node.level
     \/ node.category = "form" /\ OneCoarser(target, node.level)
     \/ node.category = "material" /\ OneFiner(target, node.level)

Resolved == qPc = "resolved"

\* the validator reports the queried node unusable / not unusable
ReportedUnusable == qUnavailable = <<qNode.id>>

NotReportedUnusable == qUnavailable = <<>>

\* C2: a node resolved at its own level keeps its category and is not
\* reported unusable by the validator at that level.
C2_OwnLevelIdentity ==
  (Resolved /\ qLevel = qNode.level)
    => (qRelative = qNode.category /\ NotReportedUnusable)

C2_Witness ==
  Resolved /\ qLevel = qNode.level /\ qNode.category = "material"
    /\ qRelative = "material"

\* C3: a form node resolved one step coarser than its level is usable and
\* its effective category is material.
C3_FormOneUpIsMaterial ==
  (Resolved /\ qNode.category = "form" /\ OneCoarser(qLevel, qNode.level))
    => (qRelative = "material" /\ NotReportedUnusable)

C3_Witness ==
  Resolved /\ qNode.category = "form" /\ qNode.level = "timbre"
    /\ qLevel = "phrase" /\ qRelative = "material"

\* C4: a material node resolved one step finer than its level is usable and
\* its effective category is form.
C4_MaterialOneDownIsForm ==
  (Resolved /\ qNode.category = "material" /\ OneFiner(qLevel, qNode.level))
    => (qRelative = "form" /\ NotReportedUnusable)

C4_Witness ==
  Resolved /\ qNode.category = "material" /\ qNode.level = "album"
    /\ qLevel = "single" /\ qRelative = "form"

\* C5: a material node one step coarser, and a form node one step finer,
\* get no effective category and are reported unusable by the validator.
C5_WrongDirectionUnusable ==
  (Resolved
     /\ \/ qNode.category = "material" /\ OneCoarser(qLevel, qNode.level)
        \/ qNode.category = "form" /\ OneFiner(qLevel, qNode.level))
    => (qRelative = "" /\ ReportedUnusable)

C5_Witness ==
  /\ Resolved
  /\ qNode.category = "material"
  /\ qNode.level = "single"
  /\ qLevel = "album"
  /\ ReportedUnusable

\* C6: a target level two or more steps from the node's level is unusable
\* whatever the category, and an album-form or timbre-material node is
\* usable at its own level only.
C6_TwoHopsUnusable ==
  Resolved =>
    /\ TwoOrMore(qLevel, qNode.level) => (qRelative = "" /\ ReportedUnusable)
    /\ (\/ qNode.level = "album" /\ qNode.category = "form"
        \/ qNode.level = "timbre" /\ qNode.category = "material")
         => /\ Range(qUsable) = {qNode.level}
            /\ (qLevel # qNode.level => (qRelative = "" /\ ReportedUnusable))

C6_Witness ==
  /\ Resolved
  /\ qNode.level = "album"
  /\ qNode.category = "form"
  /\ qLevel = "segment"
  /\ ReportedUnusable

\* C7: the validator flags the node (the target level is not among its
\* usable levels) exactly when the resolver returns the empty result.
C7_ValidatorAgreesWithResolver ==
  Resolved =>
    /\ ReportedUnusable <=> qRelative = ""
    /\ NotReportedUnusable <=> qRelative # ""
    /\ (qLevel \notin Range(qUsable)) <=> qRelative = ""

C7_Witness ==
  /\ Resolved
  /\ qNode.category = "material"
  /\ OneCoarser(qLevel, qNode.level)
  /\ ReportedUnusable
  /\ qRelative = ""

(***************************************************************************)
(* Recipe create and update against the store.                              *)
(***************************************************************************)
RecipeWrites == {"postRecipe", "patchRecipe"}

\* the last request was a recipe create/update with every required field, so
\* that the handler went on to check its ids
IdsChecked ==
  /\ resp.op \in RecipeWrites
  /\ resp.error \notin {"required", "badId", "notFound"}

\* the node list the last request saw
CurrentNodes == readNodeList(dataFile)

NodeWithId(nodes, id) == CHOOSE node \in Range(nodes) : node.id = id

Exists(nodes, id) == \E node \in Range(nodes) : node.id = id

\* id is the id of a node that the single-hop rule does not allow at level
ExistsUnusable(nodes, id, level) ==
  Exists(nodes, id) /\ ~SingleHopUsable(NodeWithId(nodes, id), level)

\* recipe names only nodes of the list, each usable at the recipe's level
RecipeValid(recipe, nodes) ==
  \A k \in 1..Len(recipe.knowledgePoints) :
    /\ Exists(nodes, recipe.knowledgePoints[k])
    /\ SingleHopUsable(NodeWithId(nodes, recipe.knowledgePoints[k]), recipe.level)

\* the ids, in order, that are the id of no node
MissingIds(ids, nodes) ==
  LET missing(id) == ~Exists(nodes, id) IN SelectSeq(ids, missing)

\* the ids, in order, whose node is not allowed at level by the single-hop rule
UnusableIds(ids, nodes, level) ==
  LET unusable(id) == ExistsUnusable(nodes, id, level) IN SelectSeq(ids, unusable)

\* C1: a recipe create or update puts a record in the data file only if
\* every id of the record is the id of a node then in the store and that
\* node is usable at the record's level under the single-hop rule; a request
\* whose record fails this leaves the data file as it was.
C1_OnlyValidRecipesWritten ==
  [][resp'.op \in RecipeWrites /\ dataFile' # dataFile =>
       \A nodes \in {readNodeList(dataFile)} :
         /\ \A k \in 1..Len(dataFile'.recipes) :
              dataFile'.recipes[k] \in Range(dataFile.recipes)
                \/ RecipeValid(dataFile'.recipes[k], nodes)
         /\ RecipeValid(normalized', nodes)
    ]_vars

C1_Witness ==
  /\ resp.op = "patchRecipe"
  /\ resp.status = 200
  /\ Len(dataFile.recipes) = 1
  /\ dataFile.recipes[1] = resp.record
  /\ Len(resp.record.knowledgePoints) = 2
  /\ resp.record.knowledgePoints[1] # resp.record.knowledgePoints[2]
  /\ \E k \in 1..2 :
       NodeWithId(CurrentNodes, resp.record.knowledgePoints[k]).level
         # resp.record.level

\* C8: a create or update (with its required fields) whose ids hold both an
\* id of no node and the id of a node unusable at the target level is
\* rejected with the missing-knowledge-points message, not the unusable one.
C8_MissingBeforeUnusable ==
  IdsChecked =>
    \A nodes \in {CurrentNodes} :
      (/\ MissingIds(normalized.knowledgePoints, nodes) # <<>>
       /\ UnusableIds(normalized.knowledgePoints, nodes, normalized.level) # <<>>)
        => (resp.status = 400 /\ resp.error = "missing")

C8_Witness ==
  /\ resp.op = "patchRecipe"
  /\ resp.error = "missing"
  /\ MissingIds(normalized.knowledgePoints, CurrentNodes) # <<>>
  /\ UnusableIds(normalized.knowledgePoints, CurrentNodes, normalized.level) # <<>>

\* C9 as stated: a rejection for missing ids names exactly the ids that have
\* no matching node.
C9_MissingIdsNamed ==
  (resp.op \in RecipeWrites /\ resp.error = "missing")
    => resp.ids = MissingIds(normalized.knowledgePoints, CurrentNodes)

\* C9 amended: a create or update (with its required fields) is rejected with
\* the missing-knowledge-points message exactly when some id of the request
\* has no matching node, and that message is fixed text naming no id and no
\* level.
C9_MissingRejectedUnnamed ==
  IdsChecked =>
    /\ resp.error = "missing"
         <=> MissingIds(normalized.knowledgePoints, CurrentNodes) # <<>>
    /\ resp.error = "missing" =>
         (resp.status = 400 /\ resp.ids = <<>> /\ resp.level = "")

C9_Witness ==
  /\ resp.op = "postRecipe"
  /\ resp.error = "missing"
  /\ Len(normalized.knowledgePoints) = 2
  /\ Len(MissingIds(normalized.knowledgePoints, CurrentNodes)) = 1
  /\ resp.ids = <<>>

\* C10: a create or update (with its required fields) whose ids all exist,
\* at least one of them unusable at the target level, is rejected with the
\* unusable message, which names the target level and exactly the unusable
\* ids in submitted order.
C10_UnusableIdsNamed ==
  IdsChecked =>
    \A nodes \in {CurrentNodes} :
      \A unusable \in {UnusableIds(normalized.knowledgePoints, nodes, normalized.level)} :
        (MissingIds(normalized.knowledgePoints, nodes) = <<>> /\ unusable # <<>>)
          => /\ resp.status = 400
             /\ resp.error = "unusable"
             /\ resp.level = normalized.level
             /\ resp.ids = unusable

C10_Witness ==
  /\ resp.op = "postRecipe"
  /\ resp.error = "unusable"
  /\ MissingIds(normalized.knowledgePoints, CurrentNodes) = <<>>
  /\ Len(normalized.knowledgePoints) = 2
  /\ resp.ids = <<normalized.knowledgePoints[2]>>
  /\ normalized.knowledgePoints[1] # normalized.knowledgePoints[2]

\* C11: a create or update whose resulting knowledgePoints list is empty
\* (no array, an empty array, or an array of which no token is an id) is
\* rejected with the required-fields message and the data file is left as
\* it was.
C11_EmptyListRejected ==
  [][(/\ resp'.op \in RecipeWrites
      /\ resp'.error \notin {"badId", "notFound"}
      /\ normalized'.knowledgePoints = <<>>)
       => (resp'.status = 400 /\ resp'.error = "required" /\ dataFile' = dataFile)
    ]_vars

C11_Witness ==
  /\ resp.op = "patchRecipe"
  /\ resp.error = "required"
  /\ normalized.knowledgePoints = <<>>
  /\ normalized.submitted.kind = "array"
  /\ Len(normalized.submitted.items) > 0
  /\ normalized.level \in LEVELS
  /\ Len(dataFile.recipes) = 1

\* what the id checks answer for a record with its required fields
ExpectedError(norm, nodes) ==
  IF MissingIds(norm.knowledgePoints, nodes) # <<>> THEN "missing"
  ELSE IF UnusableIds(norm.knowledgePoints, nodes, norm.level) # <<>> THEN "unusable"
  ELSE ""

\* C12: for a record with its required fields, create and update give the
\* outcome that its level, its ids and the node list determine: rejected as
\* missing, rejected as unusable, or accepted; so an update that only moves
\* the level to one where a referenced node is unusable is rejected.
C12_UpdateValidatedLikeCreate ==
  IdsChecked =>
    /\ resp.error = ExpectedError(normalized, CurrentNodes)
    /\ resp.status = (IF resp.error # "" THEN 400
                      ELSE IF resp.op = "postRecipe" THEN 201 ELSE 200)

C12_Witness ==
  /\ resp.op = "patchRecipe"
  /\ resp.status = 400
  /\ resp.error = "unusable"
  /\ Len(dataFile.recipes) = 1
  /\ dataFile.recipes[1].knowledgePoints = normalized.knowledgePoints
  /\ dataFile.recipes[1].level # normalized.level
  /\ RecipeValid(dataFile.recipes[1], CurrentNodes)

\* C13: a create or update that is rejected, for whatever reason, leaves the
\* data file as it was.
C13_RejectionWritesNothing ==
  [][(resp'.op \in RecipeWrites /\ resp'.status \notin {200, 201})
       => dataFile' = dataFile
    ]_vars

C13_Witness ==
  /\ resp.op = "postRecipe"
  /\ resp.status = 400
  /\ resp.error = "unusable"
  /\ Len(dataFile.recipes) = 1
  /\ Len(readRecipeList(dataFile)) = 1

\* the request's knowledgePoints array holds a token that is a negative number
HasMalformedToken(value) ==
  value.kind = "array" /\ \E k \in 1..Len(value.items) : value.items[k].val < 0

\* C14: a create or update whose knowledgePoints array holds a malformed
\* token is rejected, and not by the existence or the usability check.
C14_MalformedTokenRejected ==
  (resp.op \in RecipeWrites /\ HasMalformedToken(normalized.submitted))
    => (resp.status = 400 /\ resp.error \notin {"missing", "unusable"})

\* a create of [id, -1] is accepted and stored as [id]
C14_Witness ==
  /\ resp.op = "postRecipe"
  /\ resp.status = 201
  /\ HasMalformedToken(normalized.submitted)
  /\ Len(normalized.submitted.items) = 2
  /\ Len(resp.record.knowledgePoints) = 1
  /\ resp.record \in Range(dataFile.recipes)

\* the numbers of the submitted array that are ids, in submitted order
SubmittedIds(value) ==
  LET isId(n) == n >= 0
  IN SelectSeq([k \in 1..Len(value.items) |-> value.items[k].val], isId)

RecipeFields == {"id", "knowledgePoints", "procedure", "level", "description"}

NodeFields == {"id", "content", "level", "category"}

C16_DeleteKeepsRecipesReturned ==
  [][(resp'.op = "deleteNode" /\ resp'.status = 204) =>
       /\ dataFile'.recipes = dataFile.recipes
       /\ readRecipeList(dataFile') = readRecipeList(dataFile)
    ]_vars

\* after the delete of a referenced node the data file holds a recipe that
\* recipe reads do not return
C16_Witness ==
  /\ resp.op = "deleteNode"
  /\ resp.status = 204
  /\ Len(dataFile.recipes) = 1
  /\ readRecipeList(dataFile) = <<>>

\* id is among the knowledgePoints of a recipe of the data file
Referenced(file, id) ==
  \E k \in 1..Len(file.recipes) : id \in Range(file.recipes[k].knowledgePoints)

\* C17: a successful PATCH /api/nodes/:id of a node that recipes of the data
\* file reference leaves every recipe of the data file unchanged.
C17_NodeEditKeepsRecipes ==
  [][(/\ resp'.op = "patchNode"
      /\ resp'.status = 200
      /\ Referenced(dataFile, resp'.record.id))
       => dataFile'.recipes = dataFile.recipes
    ]_vars

\* after the edit a recipe that reads return references the edited node,
\* which is not usable at the recipe's level
C17_Witness ==
  /\ resp.op = "patchNode"
  /\ resp.status = 200
  /\ \E recipe \in Range(readRecipeList(dataFile)) :
       /\ resp.record.id \in Range(recipe.knowledgePoints)
       /\ ~SingleHopUsable(resp.record, recipe.level)

\* C18 as stated: no step changes the id, content, level or category of a
\* node that is in the store before and after the step.
C18_NodesImmutable ==
  [][\A k \in 1..Len(dataFile.nodes), j \in 1..Len(dataFile'.nodes) :
       dataFile'.nodes[j].id = dataFile.nodes[k].id
         => dataFile'.nodes[j] = dataFile.nodes[k]
    ]_vars

\* C18 amended: a node's id never changes, and its content, level and
\* category are changed by an accepted PATCH /api/nodes/:id of that id and by
\* nothing else: such a step keeps the list's length, order and ids and
\* changes no node but the one it returns; every other step leaves each node
\* that stays in the store as it was.
C18_OnlyNodeEditChangesNode ==
  [][IF resp'.op = "patchNode" /\ resp'.status = 200
     THEN /\ Len(dataFile'.nodes) = Len(dataFile.nodes)
          /\ \A k \in 1..Len(dataFile.nodes) :
               /\ dataFile'.nodes[k].id = dataFile.nodes[k].id
               /\ dataFile'.nodes[k] # dataFile.nodes[k]
                    => dataFile'.nodes[k] = resp'.record
     ELSE \A k \in 1..Len(dataFile.nodes), j \in 1..Len(dataFile'.nodes) :
            dataFile'.nodes[j].id = dataFile.nodes[k].id
              => dataFile'.nodes[j] = dataFile.nodes[k]
    ]_vars

\* an accepted edit has left a node at timbre that a stored album recipe,
\* valid when it was written, references
C18_Witness ==
  /\ resp.op = "patchNode"
  /\ resp.status = 200
  /\ resp.record \in Range(dataFile.nodes)
  /\ resp.record.level = "timbre"
  /\ \E recipe \in Range(dataFile.recipes) :
       /\ recipe.level = "album"
       /\ resp.record.id \in Range(recipe.knowledgePoints)

RecipeOps == {"postRecipe", "patchRecipe", "deleteRecipe"}

\* C19: a recipe create, update or delete, accepted or rejected, and the
\* relative-category query leave the node list as it was: same nodes with
\* the same fields, in the same order.
C19_RecipeOpsKeepNodes ==
  [][resp'.op \in RecipeOps \cup {"getRelative"} => dataFile'.nodes = dataFile.nodes
    ]_vars

C19_Witness ==
  /\ resp.op = "deleteRecipe"
  /\ resp.status = 204
  /\ Len(dataFile.nodes) = 2
  /\ readNodeList(dataFile) = dataFile.nodes
  /\ dataFile.recipes = <<>>

EffectiveCategory(node, level) ==
  IF level = node.level THEN node.category
  ELSE IF node.category = "form" THEN "material" ELSE "form"

\* C21: GET /api/nodes/:id/relative with a well-formed id and a valid level
\* answers not-found when no node has the id, whatever the level; the
\* not-usable failure, naming id and level, when the node exists and the
\* single-hop rule does not allow it at the level; and otherwise the node's
\* id and content, its level and category as sourceLevel and
\* sourceCategory, the level asked as targetLevel and the rule's category
\* as relativeCategory.
C21_RelativeAnswer ==
  (resp.op = "getRelative" /\ resp.error \notin {"badId", "badLevel"}) =>
    \A nodes \in {CurrentNodes}, id \in {normalized.knowledgePoints[1]},
       level \in {normalized.level} :
      IF ~Exists(nodes, id)
      THEN resp.status = 404 /\ resp.error = "notFound"
      ELSE \A node \in {NodeWithId(nodes, id)} :
             IF ~SingleHopUsable(node, level)
             THEN /\ resp.status = 400
                  /\ resp.error = "unusable"
                  /\ resp.ids = <<id>>
                  /\ resp.level = level
             ELSE /\ resp.status = 200
                  /\ resp.record =
                       [id |-> id, content |-> node.content,
                        sourceLevel |-> node.level,
                        sourceCategory |-> node.category,
                        targetLevel |-> level,
                        relativeCategory |-> EffectiveCategory(node, level)]

C21_Witness ==
  /\ resp.op = "getRelative"
  /\ resp.status = 200
  /\ resp.record.sourceLevel # resp.record.targetLevel
  /\ resp.record.sourceCategory = "material"
  /\ resp.record.relativeCategory = "form"
  /\ Len(dataFile.nodes) = 2

IdsOf(list) == [k \in 1..Len(list) |-> list[k].id]

DistinctIds(list) ==
  /\ \A k \in 1..Len(list) : list[k].id \in Nat
  /\ \A i, j \in 1..Len(list) : list[i].id = list[j].id => i = j

Creates == {"postNode", "postRecipe"}

Updates == {"patchNode", "patchRecipe"}

\* the list a handler of the given operation reads and writes
ListOf(op, file) ==
  IF op \in {"postNode", "patchNode"} THEN readNodeList(file)
  ELSE readRecipeList(file)

\* C23: after any sequence of creates, updates and deletes from the empty
\* store the node ids are pairwise distinct non-negative integers and so are
\* the recipe ids, in the file and in what readStore returns; a record
\* created in an empty list gets id 0; an accepted update leaves the ids of
\* its list as they were, position by position
C23_IdsUniqueAndStable ==
  /\ [](/\ DistinctIds(dataFile.nodes)
        /\ DistinctIds(dataFile.recipes)
        /\ DistinctIds(readRecipeList(dataFile)))
  /\ [][(resp'.op \in Creates /\ resp'.status = 201
          /\ ListOf(resp'.op, dataFile) = <<>>)
          => resp'.record.id = 0]_vars
  /\ [][(resp'.op \in Updates /\ resp'.status = 200)
          => /\ IdsOf(ListOf(resp'.op, dataFile')) = IdsOf(ListOf(resp'.op, dataFile))
             /\ resp'.record.id \in Range(IdsOf(ListOf(resp'.op, dataFile)))]_vars

\* two recipes and two nodes are stored, the newest recipe was given an id
\* past a freed one
C23_Witness ==
  /\ resp.op = "postRecipe"
  /\ resp.status = 201
  /\ Len(dataFile.recipes) = 2
  /\ Len(dataFile.nodes) = 2
  /\ resp.record.id = 2
  /\ dataFile.recipes[2].id = 1

\* an update of the newer of two recipes was accepted
C23_WitnessUpdate ==
  /\ resp.op = "patchRecipe"
  /\ resp.status = 200
  /\ Len(dataFile.recipes) = 2
  /\ resp.record.id = dataFile.recipes[1].id
  /\ dataFile.recipes[2].id = 0

(***************************************************************************)
(* C24: what readStore returns has no dangling or empty reference.         *)
(***************************************************************************)
\* C24: every store value returned by readStore satisfies, whatever the data
\* file contains: each recipe of it has a non-empty knowledgePoints list and
\* every id in that list is the id of a node of the same returned store
C24_ReturnedStoreClosed ==
  readPc = "returned" =>
    \A k \in 1..Len(view.recipes) :
      /\ view.recipes[k].knowledgePoints # <<>>
      /\ \A i \in 1..Len(view.recipes[k].knowledgePoints) :
           Exists(view.nodes, view.recipes[k].knowledgePoints[i])

\* a returned recipe references a node through an id that is no number in
\* the file and that the node loop replaced by a number
C24_Witness ==
  /\ readPc = "returned"
  /\ Len(view.recipes) = 1
  /\ \E i \in 1..Len(parsed.recipes.items[1].knowledgePoints.items) :
       normalizeNumericId(parsed.recipes.items[1].knowledgePoints.items[i]) = NullId
  /\ Len(view.recipes[1].knowledgePoints) = Len(parsed.recipes.items[1].knowledgePoints.items)

\* a file whose recipe names an id no node has: the recipe is not returned
C24_WitnessDropped ==
  /\ readPc = "returned"
  /\ Len(view.nodes) = 1
  /\ parsed.recipes.kind = "array"
  /\ Len(parsed.recipes.items) = 1
  /\ parsed.recipes.items[1].description = "d"
  /\ parsed.recipes.items[1].knowledgePoints = ArrayValue(<<NumberToken(0), NumberToken(1)>>)
  /\ view.recipes = <<>>

\* the old music list is migrated to nodes
C24_WitnessMigrated ==
  /\ readPc = "returned"
  /\ parsed.music.kind = "array"
  /\ Len(view.nodes) = 2
  /\ view.nodes[2].content = "d"
  /\ ItemsOf(parsed.recipes) # <<>>

(***************************************************************************)
(* C25: overlapping writes.                                                *)
(***************************************************************************)
BothAcknowledged ==
  \A w \in Writers : writers[w].pc = "done" /\ writers[w].status = 201

\* the record a handler was acknowledged for is in its list of the data file
Kept(writer) ==
  IF writer.op = "postNode" THEN RecordOf(writer) \in Range(dataFile.nodes)
  ELSE RecordOf(writer) \in Range(dataFile.recipes)

\* C25: when two write requests overlap, each reading before the other has
\* written, then once both have answered 201 the data file holds the record
\* of both, and two creations in the same list did not get the same id
C25_OverlappedWritesKept ==
  (overlapped /\ BothAcknowledged) =>
    /\ \A w \in Writers : Kept(writers[w])
    /\ writers[1].op = writers[2].op => writers[1].id # writers[2].id

\* two overlapping node creations were both answered 201
C25_Witness ==
  /\ overlapped
  /\ BothAcknowledged
  /\ \A w \in Writers : writers[w].op = "postNode"

\* a node creation and a recipe creation overlapped and one of them is not
\* in the file
C25_WitnessMixed ==
  /\ overlapped
  /\ BothAcknowledged
  /\ writers[1].op = "postNode"
  /\ writers[2].op = "postRecipe"
  /\ \E w \in Writers : ~Kept(writers[w])

(***************************************************************************)
(* C26: a reused node id does not rebind an old reference.                 *)
(***************************************************************************)
\* C26: in sequential runs every recipe that readStore returns names, with
\* each of its ids, the node that had that id when the recipe was last
\* accepted: no id of it stands for a node created since
C26_NoRebinding ==
  \A recipes \in {readRecipeList(dataFile)} :
    \A k \in 1..Len(recipes) :
      \A i \in 1..Len(recipes[k].knowledgePoints) :
        \A id \in {recipes[k].knowledgePoints[i]} :
          recipeSeen[recipes[k].id][id] = nodeGen[id]

\* a node has just been created with the id of a deleted node while the
\* data file still held a recipe naming that id
C26_Witness ==
  /\ resp.op = "postNode"
  /\ resp.status = 201
  /\ nodeGen[resp.record.id] = 2
  /\ staleRefs # {}

(***************************************************************************)
(* C27..C29: the library's new and modified listings, and the refined      *)
(* records of deleted entries.                                             *)
(***************************************************************************)
LibIds == 1..MaxEntryId

Unrefined(store, id) == HasEntry(store, id) /\ ~HasRefined(store, id)

NewIds == Range(listNewEntries(libBackend, libStore))

\* C27: in both stores GET /library-api/agent/entries/new lists an entry
\* exactly when it has no refined record; an inserted entry is listed; an
\* entry is not listed once POST /library-api/agent/refined has stored its
\* record; an update changes nothing in the listing; and an entry is listed
\* again after DELETE /library-api/agent/refined/:id
C27_NewUntilRefined ==
  /\ [](libResp.op = "getNew" =>
          \A id \in LibIds : id \in Range(libResp.rows) <=> Unrefined(libStore, id))
  /\ [][(libResp'.op = "postEntry" /\ libResp'.status = 201)
          => libResp'.id \in NewIds']_vars
  /\ [][(libResp'.op = "postRefined" /\ libResp'.status = 201)
          => libResp'.id \notin NewIds']_vars
  /\ [][(libResp'.op = "putEntry" /\ libResp'.status = 200)
          => NewIds' = NewIds]_vars
  /\ [][(libResp'.op = "deleteRefined" /\ libResp'.status = 204
          /\ HasEntry(libStore, libResp'.id))
          => libResp'.id \in NewIds']_vars

\* the listing has answered without an entry that was refined and then
\* updated
C27_Witness ==
  /\ libResp.op = "getNew"
  /\ libResp.rows = <<>>
  /\ Len(libStore.entries) = 1
  /\ libStore.entries[1].source = <<"s">>
  /\ RefinedOf(libStore, libStore.entries[1].id).hash # libStore.entries[1].hash

\* the refined record of the entry is not of its current hash
Outdated(store, id) ==
  /\ HasEntry(store, id)
  /\ HasRefined(store, id)
  /\ RefinedOf(store, id).hash # getEntryById(store, id).hash

ModifiedIds == Range(listModifiedEntries(libBackend, libStore))

\* type, title and content of an entry
Hashed(store, id) ==
  <<getEntryById(store, id).type, getEntryById(store, id).title,
    getEntryById(store, id).content>>

\* C28: GET /library-api/agent/entries/modified lists an entry exactly when
\* it has a refined record whose hash is not the entry's current hash; an
\* entry is not listed right after POST /library-api/agent/refined; an
\* update that changes type, title or content of an entry whose refined
\* record was current lists it; an update that changes none of the three
\* changes nothing in the listing
C28_ModifiedWhenHashDiffers ==
  /\ [](libResp.op = "getModified" =>
          \A id \in LibIds : id \in Range(libResp.rows) <=> Outdated(libStore, id))
  /\ [][(libResp'.op = "postRefined" /\ libResp'.status = 201)
          => libResp'.id \notin ModifiedIds']_vars
  /\ [][(libResp'.op = "putEntry" /\ libResp'.status = 200
          /\ HasRefined(libStore, libResp'.id)
          /\ libResp'.id \notin ModifiedIds
          /\ Hashed(libStore', libResp'.id) # Hashed(libStore, libResp'.id))
          => libResp'.id \in ModifiedIds']_vars
  /\ [][(libResp'.op = "putEntry" /\ libResp'.status = 200
          /\ Hashed(libStore', libResp'.id) = Hashed(libStore, libResp'.id))
          => ModifiedIds' = ModifiedIds]_vars

\* an update has changed title and content of a refined entry and the
\* listing does not have it
C28_Witness ==
  /\ libResp.op = "putEntry"
  /\ libResp.status = 200
  /\ HasRefined(libStore, libResp.id)
  /\ getEntryById(libStore, libResp.id).title = <<"a">>
  /\ getEntryById(libStore, libResp.id).content = <<"b", "|", "c">>
  /\ getEntryById(libStore, libResp.id).type = <<"note">>
  /\ getEntryById(libStore, libResp.id).hash
       = computeHash(HashText(<<"note">>, <<"a", "|", "b">>, <<"c">>))
  /\ libResp.id \notin ModifiedIds

\* C29: after a delete of an entry no refined record of its id remains; in
\* every sequential run of the library routes each refined record, and each
\* row of refined.json, is of an existing entry; POST
\* /library-api/agent/refined for an id without entry answers 404 and
\* stores nothing
C29_RefinedHasEntry ==
  /\ [](/\ \A k \in 1..Len(libStore.refinedEntries) :
             HasEntry(libStore, libStore.refinedEntries[k].entry_id)
        /\ \A k \in 1..Len(refinedJson) :
             HasEntry(libStore, refinedJson[k].entry_id))
  /\ [][(libResp'.op = "deleteEntry" /\ libResp'.status = 204)
          => ~HasRefined(libStore', libResp'.id)]_vars
  /\ [][(libResp'.op = "postRefined" /\ libResp'.status # 400
          /\ ~HasEntry(libStore, libResp'.id))
          => /\ libResp'.status = 404
             /\ libStore' = libStore
             /\ refinedJson' = refinedJson]_vars

\* the sqlite store has deleted a refined entry, and a refined record for
\* its id was then refused
C29_Witness ==
  /\ libBackend = "sqlite"
  /\ libResp.op = "postRefined"
  /\ libResp.status = 404
  /\ libResp.id >= 1
  /\ libStore.seq >= libResp.id
  /\ libStore.refinedEntries = <<>>

\* the fallback store has deleted a refined entry and given its id to a new
\* entry, which has no refined record
C29_WitnessReused ==
  /\ libBackend = "fallback"
  /\ libResp.op = "getNew"
  /\ libResp.rows = <<1>>
  /\ refinedJson = <<>>

(***************************************************************************)
(* C30: the dev supervisor shuts down once.                                *)
(***************************************************************************)
\* the exit code the claim gives for a trigger
TriggerCode(event) ==
  CASE event.kind = "exit" -> event.code
    [] event.kind \in {"SIGINT", "SIGTERM"} -> 0
    [] OTHER -> 1

\* C30: the first child exit, child error or signal starts the shutdown and
\* decides the exit code (exit code 0 or a signal to the supervisor: 0; exit
\* code c: c; child killed by a signal or not spawned: 1) and every child
\* not already killed is told to stop, once; later events change neither
\* the exit code nor child.killed nor tell a child to stop again; the
\* supervisor exits with the code decided, and once shutting down it does
\* exit
C30_ShutsDownOnce ==
  /\ [][~shuttingDown =>
          /\ shuttingDown'
          /\ timerCode' = TriggerCode(devEvent')
          /\ \A c \in Children : ~childKilled[c] => stopAsked'[c] = 1]_vars
  /\ [][shuttingDown =>
          /\ shuttingDown'
          /\ timerCode' = timerCode
          /\ stopAsked' = stopAsked
          /\ childKilled' = childKilled]_vars
  /\ [](processExit # NoCode => processExit = timerCode)
  /\ [](shuttingDown <=> timerCode # NoCode)
  /\ (shuttingDown ~> processExit # NoCode)

\* the supervisor has exited with the code of the child that ended first,
\* after the other child had ended with another code during the shutdown
C30_Witness ==
  /\ processExit = 2
  /\ \A c \in Children : childStatus[c] = "exited"
  /\ \A c \in Children : stopAsked[c] = 1
  /\ \E c \in Children : childKilled[c]
====
